---------------------------- MODULE Spec2Model ----------------------------
(***************************************************************************)
(* Model of the ticket notification service.                               *)
(*                                                                         *)
(*   internal/service  NotificationService: SendNotification,              *)
(*                     SendBulkNotifications, NotifyEvent*,                *)
(*                     NotifyReservation*, SendEventReminder,              *)
(*                     ProcessNotificationQueue                            *)
(*   internal/queue    SQSClient: one client per queue                     *)
(*   internal/model    Notification and the request types                  *)
(*   internal/db       DynamoClient: the notifications table               *)
(*   internal/handlers NotificationHandler: send, update, delete           *)
(*                                                                         *)
(* A call of a service method is one action.  The record of the call that  *)
(* has completed and is being handed back to its caller is kept in `call`: *)
(* the request, the returned values, and the transport operations the call *)
(* performed, in order (`effects`).  Return hands it over, after which the *)
(* next call may start.                                                    *)
(*                                                                         *)
(* The SES and SQS transports are external: every transport operation      *)
(* succeeds or fails, chosen by the environment.  A failed SQS send adds   *)
(* no message; a successful one appends the message to its queue.  A       *)
(* receive hands out any distinct messages of the queue, up to the number  *)
(* asked for; a successful delete removes its message, and a message that  *)
(* was received and not deleted becomes visible in its queue again.        *)
(*                                                                         *)
(* The DynamoDB table is external too: PutItem replaces the item of a key, *)
(* UpdateItem writes the named attributes into the item of a key and adds  *)
(* the item when the table has none, DeleteItem removes it.  A failed      *)
(* operation leaves the table as it was.                                   *)
(***************************************************************************)
EXTENDS Naturals, Integers, Sequences, FiniteSets

VARIABLES
    queues,     \* queue name -> sequence of messages held by that SQS queue
    now,        \* the wall clock read by time.Now()
    nextID,     \* source of uuid.New(): the next identifier never handed out
    call,       \* the completed call being returned to its caller
    store       \* the notifications table: id -> item (attribute -> value)

vars == <<queues, now, nextID, call, store>>

----------------------------------------------------------------------------
(* Bounds of the model *)

\* The clock stops advancing at MaxTime.
MaxTime == 2
\* Identifiers uuid.New() can hand out.
MaxIDs == 3
\* Longest batch of a bulk request.
MaxBatch == 3
\* Messages the three queues hold together.
MaxQueue == 2
\* notifications sent through the send handler in the store specification
MaxSends == 1

----------------------------------------------------------------------------
(* internal/model *)

\* A nil pointer (*time.Time) or a nil error, and a set pointer.
Nil == <<>>
Some(v) == <<v>>

\* uuid.Nil, the zero UUID; uuid.New() never returns it.
NilUUID == 0

NotificationStatusPending == "pending"
NotificationStatusSending == "sending"
NotificationStatusSent == "sent"
NotificationStatusDelivered == "delivered"
NotificationStatusFailed == "failed"
NotificationStatusRead == "read"

NotificationStatus ==
    { NotificationStatusPending, NotificationStatusSending, NotificationStatusSent,
      NotificationStatusDelivered, NotificationStatusFailed, NotificationStatusRead }

NotificationPriorityLow == "low"
NotificationPriorityNormal == "normal"
NotificationPriorityHigh == "high"
NotificationPriorityUrgent == "urgent"

\* A request's priority: one of the four constants, or "" when left out.
NotificationPriority ==
    { "", NotificationPriorityLow, NotificationPriorityNormal,
      NotificationPriorityHigh, NotificationPriorityUrgent }

\* The data bag of a request: absent, or one substitution value.
DataBags == { <<>>, <<"name", "Ana">> }

\* CreateNotificationRequest values the callers send.  The service does not
\* validate them, so the empty recipient is among them.
CreateNotificationRequest ==
    [ Type       : {"welcome", "ticket_generated"},
      Priority   : NotificationPriority,
      Recipient  : {"", "ana@example.com"},
      Subject    : {"Hola"},
      Content    : {"Bienvenida"},
      TemplateID : {"", "tpl-welcome"},
      Data       : DataBags ]

----------------------------------------------------------------------------
(* internal/service: the email primitive *)

\* One transport operation performed by a call.
EmailEffect(notification, ok) ==
    [ kind   |-> "email",
      target |-> notification.Recipient,
      body   |-> [Subject |-> notification.Subject, Content |-> notification.Content],
      ok     |-> ok ]

\* sendEmailNotification: builds the single-recipient email and submits it to
\* SES; sesOK is the outcome of SendEmail.  Returns the error and the effect.
sendEmailNotification(notification, sesOK) ==
    [ err     |-> IF sesOK THEN Nil ELSE Some("error sending email via SES"),
      effects |-> << EmailEffect(notification, sesOK) >> ]

----------------------------------------------------------------------------
(* internal/service: SendNotification *)

\* Mutant: an unspecified priority is kept as it is.
newNotification_NoDefault(req, id, t1, t2) ==
    [ ID         |-> id,
      Type       |-> req.Type,
      Status     |-> NotificationStatusPending,
      Priority   |-> req.Priority,
      Recipient  |-> req.Recipient,
      Subject    |-> req.Subject,
      Content    |-> req.Content,
      TemplateID |-> req.TemplateID,
      Data       |-> req.Data,
      SentAt     |-> Nil,
      ReadAt     |-> Nil,
      CreatedAt  |-> t1,
      UpdatedAt  |-> t2 ]

\* The Notification SendNotification allocates: id the value of uuid.New(),
\* t1 and t2 the clock readings for CreatedAt and UpdatedAt; an unspecified
\* priority becomes normal.
newNotification(req, id, t1, t2) ==
    LET n0 == [ ID         |-> id,
                Type       |-> req.Type,
                Status     |-> NotificationStatusPending,
                Priority   |-> req.Priority,
                Recipient  |-> req.Recipient,
                Subject    |-> req.Subject,
                Content    |-> req.Content,
                TemplateID |-> req.TemplateID,
                Data       |-> req.Data,
                SentAt     |-> Nil,
                ReadAt     |-> Nil,
                CreatedAt  |-> t1,
                UpdatedAt  |-> t2 ]
    IN  IF n0.Priority = ""
        THEN [n0 EXCEPT !.Priority = NotificationPriorityNormal]
        ELSE n0

\* Mutant: a failed send leaves the status at pending.
SendNotification_KeepsPending(req, id, t1, t2, t3, sesOK) ==
    LET n1 == newNotification(req, id, t1, t2)
        sent == sendEmailNotification(n1, sesOK)
        n2 == IF sent.err # Nil
              THEN n1
              ELSE [n1 EXCEPT !.Status = NotificationStatusSent, !.SentAt = Some(t3)]
    IN  [ notification |-> n2, err |-> Nil, effects |-> sent.effects ]

\* Mutant: the error of the email transport is returned to the caller.
SendNotification_ReturnsError(req, id, t1, t2, t3, sesOK) ==
    LET n1 == newNotification(req, id, t1, t2)
        sent == sendEmailNotification(n1, sesOK)
        n2 == IF sent.err # Nil
              THEN [n1 EXCEPT !.Status = NotificationStatusFailed]
              ELSE [n1 EXCEPT !.Status = NotificationStatusSent, !.SentAt = Some(t3)]
    IN  [ notification |-> n2, err |-> sent.err, effects |-> sent.effects ]

\* Mutant: sent_at is stamped whatever the outcome of the send.
SendNotification_StampsAlways(req, id, t1, t2, t3, sesOK) ==
    LET n1 == newNotification(req, id, t1, t2)
        sent == sendEmailNotification(n1, sesOK)
        n2 == IF sent.err # Nil
              THEN [n1 EXCEPT !.Status = NotificationStatusFailed, !.SentAt = Some(t3)]
              ELSE [n1 EXCEPT !.Status = NotificationStatusSent, !.SentAt = Some(t3)]
    IN  [ notification |-> n2, err |-> Nil, effects |-> sent.effects ]

\* SendNotification: t3 is the clock reading after a successful send and
\* sesOK the outcome of the email transport.  Returns the notification, the
\* error (always nil) and the transport operations performed.
SendNotification(req, id, t1, t2, t3, sesOK) ==
    LET n1 == newNotification(req, id, t1, t2)
        sent == sendEmailNotification(n1, sesOK)
        n2 == IF sent.err # Nil
              THEN [n1 EXCEPT !.Status = NotificationStatusFailed]
              ELSE [n1 EXCEPT !.Status = NotificationStatusSent, !.SentAt = Some(t3)]
    IN  [ notification |-> n2, err |-> Nil, effects |-> sent.effects ]

----------------------------------------------------------------------------
(* internal/service: SendBulkNotifications *)

\* BulkNotificationRequest values: a batch of items with an optional
\* batch-level priority and template.
BulkItems ==
    { [ Type |-> "welcome", Priority |-> "", Recipient |-> "ana@example.com",
        Subject |-> "Hola", Content |-> "Bienvenida",
        TemplateID |-> "tpl-welcome", Data |-> <<>> ],
      [ Type |-> "ticket_generated", Priority |-> NotificationPriorityLow,
        Recipient |-> "luis@example.com", Subject |-> "Entrada",
        Content |-> "Tu entrada", TemplateID |-> "", Data |-> <<>> ] }

Batches == UNION { [1..n -> BulkItems] : n \in 0..MaxBatch }

BulkNotificationRequest ==
    [ Notifications : Batches,
      TemplateID    : {"", "tpl-bulk"},
      Priority      : {"", NotificationPriorityUrgent} ]

\* Mutant: the batch-level priority only fills in an item that has none.
applyOverrides_FillsPriority(req, item) ==
    LET item1 == IF req.Priority # "" /\ item.Priority = ""
                 THEN [item EXCEPT !.Priority = req.Priority]
                 ELSE item
    IN  IF req.TemplateID # ""
        THEN [item1 EXCEPT !.TemplateID = req.TemplateID]
        ELSE item1

\* Mutant: the batch-level template only fills in an item that has none.
applyOverrides_FillsTemplate(req, item) ==
    LET item1 == IF req.Priority # ""
                 THEN [item EXCEPT !.Priority = req.Priority]
                 ELSE item
    IN  IF req.TemplateID # "" /\ item1.TemplateID = ""
        THEN [item1 EXCEPT !.TemplateID = req.TemplateID]
        ELSE item1

\* The batch-level priority and template applied to one item.
applyOverrides(req, item) ==
    LET item1 == IF req.Priority # ""
                 THEN [item EXCEPT !.Priority = req.Priority]
                 ELSE item
    IN  IF req.TemplateID # ""
        THEN [item1 EXCEPT !.TemplateID = req.TemplateID]
        ELSE item1

\* Mutant: the loop stops at the first item whose send failed.
RECURSIVE bulkLoop_StopsAtFailure(_, _, _, _, _)
bulkLoop_StopsAtFailure(req, i, firstID, readings, oks) ==
    IF i > Len(req.Notifications)
    THEN [ notifications |-> <<>>, errors |-> <<>>, effects |-> <<>> ]
    ELSE LET notificationReq == applyOverrides(req, req.Notifications[i])
             res  == SendNotification(notificationReq, firstID + i - 1,
                                      readings[i][1], readings[i][2],
                                      readings[i][3], oks[i])
             rest == IF res.notification.Status = NotificationStatusFailed
                     THEN [ notifications |-> <<>>, errors |-> <<>>, effects |-> <<>> ]
                     ELSE bulkLoop_StopsAtFailure(req, i + 1, firstID, readings, oks)
         IN  [ notifications |-> <<res.notification>> \o rest.notifications,
               errors        |-> rest.errors,
               effects       |-> res.effects \o rest.effects ]

\* The loop of SendBulkNotifications from item i on.  Item i gets the
\* identifier firstID + i - 1, the clock readings readings[i] and the email
\* outcome oks[i].
RECURSIVE bulkLoop(_, _, _, _, _)
bulkLoop(req, i, firstID, readings, oks) ==
    IF i > Len(req.Notifications)
    THEN [ notifications |-> <<>>, errors |-> <<>>, effects |-> <<>> ]
    ELSE LET notificationReq == applyOverrides(req, req.Notifications[i])
             res  == SendNotification(notificationReq, firstID + i - 1,
                                      readings[i][1], readings[i][2],
                                      readings[i][3], oks[i])
             rest == bulkLoop(req, i + 1, firstID, readings, oks)
         IN  [ notifications |-> IF res.err # Nil
                                 THEN rest.notifications
                                 ELSE <<res.notification>> \o rest.notifications,
               errors        |-> IF res.err # Nil
                                 THEN <<notificationReq.Recipient>> \o rest.errors
                                 ELSE rest.errors,
               effects       |-> res.effects \o rest.effects ]

SendBulkNotifications(req, firstID, readings, oks) ==
    LET done == bulkLoop(req, 1, firstID, readings, oks)
    IN  [ notifications |-> done.notifications,
          err           |-> Nil,
          logged        |-> done.errors,
          effects       |-> done.effects ]

----------------------------------------------------------------------------
(* internal/queue: SQSClient *)

\* The three clients the service holds, each named by its queue.
eventQueue == "events"
reservationQueue == "reservations"
reminderQueue == "reminders"

\* The clock counts half seconds: a time.Time is a number of half seconds.
TicksPerSecond == 2

RFC3339 == "2006-01-02T15:04:05Z07:00"

\* time.Time.Format: the text of an instant in a layout.  The layout
\* RFC3339 writes whole seconds and the layout "02/01/2006 15:04" whole
\* minutes; what is below the unit of the layout is not written.
Format(t, layout) ==
    <<layout, t \div (IF layout = RFC3339
                      THEN TicksPerSecond
                      ELSE 60 * TicksPerSecond)>>

\* time.Parse of an RFC3339 text: the instant at the start of its second.
Parse(layout, text) == text[2] * TicksPerSecond

\* A MessageAttributeValue of DataType String.
StringAttr(v) == [DataType |-> "String", StringValue |-> v]

\* Client.SendMessage on queue q: the operation performed, sqsOK its outcome.
\* The body is the JSON encoding of the message struct, kept as the record
\* of its json fields.
SendMessage(q, body, attributes, sqsOK) ==
    [ kind   |-> "enqueue",
      target |-> q,
      body   |-> [Body |-> body, MessageAttributes |-> attributes],
      ok     |-> sqsOK ]

SendEventNotification(q, msg, sqsOK) ==
    [ err     |-> IF sqsOK THEN Nil ELSE Some("error sending event notification"),
      effects |-> << SendMessage(q, msg,
                       [ Type     |-> StringAttr("event_notification"),
                         EventID  |-> StringAttr(msg.event_id),
                         Priority |-> StringAttr(msg.priority) ], sqsOK) >> ]

SendReservationNotification(q, msg, sqsOK) ==
    [ err     |-> IF sqsOK THEN Nil ELSE Some("error sending reservation notification"),
      effects |-> << SendMessage(q, msg,
                       [ Type          |-> StringAttr("reservation_notification"),
                         ReservationID |-> StringAttr(msg.reservation_id),
                         Priority      |-> StringAttr(msg.priority) ], sqsOK) >> ]

SendReminderMessage(q, msg, sqsOK) ==
    [ err     |-> IF sqsOK THEN Nil ELSE Some("error sending reminder message"),
      effects |-> << SendMessage(q, msg,
                       [ Type         |-> StringAttr("reminder"),
                         EventID      |-> StringAttr(msg.event_id),
                         ReminderType |-> StringAttr(msg.reminder_type) ], sqsOK) >> ]

----------------------------------------------------------------------------
(* internal/service: event and reservation notifications *)

\* EventNotification and ReservationNotification requests of a given type,
\* with every priority a caller can send.
EventNotification(type) ==
    [ EventID   : {"evt-1"},
      EventName : {"Concierto"},
      EventDate : {250},
      Location  : {"Teatro"},
      Recipient : {"ana@example.com"},
      Type      : {type},
      Priority  : NotificationPriority ]

ReservationNotification(type) ==
    [ ReservationID : {"res-1"},
      EventID       : {"evt-1"},
      EventName     : {"Concierto"},
      EventDate     : {250},
      Location      : {"Teatro"},
      Recipient     : {"ana@example.com"},
      Type          : {type},
      Priority      : NotificationPriority ]

EventNotificationMessage(req, templateID) ==
    [ event_id    |-> req.EventID,
      event_name  |-> req.EventName,
      event_date  |-> Format(req.EventDate, RFC3339),
      location    |-> req.Location,
      recipient   |-> req.Recipient,
      type        |-> req.Type,
      priority    |-> req.Priority,
      template_id |-> templateID ]

ReservationNotificationMessage(req, templateID) ==
    [ reservation_id |-> req.ReservationID,
      event_id       |-> req.EventID,
      event_name     |-> req.EventName,
      event_date     |-> Format(req.EventDate, RFC3339),
      location       |-> req.Location,
      recipient      |-> req.Recipient,
      type           |-> req.Type,
      priority       |-> req.Priority,
      template_id    |-> templateID ]

ReminderMessage(req) ==
    [ event_id      |-> req.EventID,
      event_name    |-> req.EventName,
      event_date    |-> Format(req.EventDate, RFC3339),
      location      |-> req.Location,
      recipient     |-> req.Recipient,
      reminder_type |-> "event_reminder",
      template_id   |-> "event_reminder_template" ]

\* The Notification built for an immediate email.  Its id and timestamps are
\* allocated and dropped with it when the call returns; it is pending and
\* keeps the request's priority as it is.
immediateNotification(req, subject, content) ==
    [ Type      |-> req.Type,
      Status    |-> NotificationStatusPending,
      Priority  |-> req.Priority,
      Recipient |-> req.Recipient,
      Subject   |-> subject,
      Content   |-> content ]

\* Mutant: the error of the immediate email is returned to the caller.
immediateEmail_ReturnsError(queued, notification, sesOK) ==
    LET mail == sendEmailNotification(notification, sesOK)
    IN  [ err |-> mail.err, effects |-> queued.effects \o mail.effects ]

\* The immediate email of a call whose enqueue succeeded: its failure is
\* logged and the call returns nil.
immediateEmail(queued, notification, sesOK) ==
    LET mail == sendEmailNotification(notification, sesOK)
    IN  [ err |-> Nil, effects |-> queued.effects \o mail.effects ]

\* Mutant: only an urgent event gets the immediate email.
NotifyEventCreated_UrgentOnly(req, sqsOK, sesOK) ==
    LET msg == EventNotificationMessage(req, "event_created_template")
        queued == SendEventNotification(eventQueue, msg, sqsOK)
    IN  IF queued.err # Nil
        THEN [ err     |-> Some("error sending event notification to queue"),
               effects |-> queued.effects ]
        ELSE IF req.Priority = NotificationPriorityUrgent
             THEN immediateEmail(queued,
                    immediateNotification(req,
                      <<"Nuevo Evento: ", req.EventName>>,
                      <<"Se ha creado un nuevo evento: ", req.EventName, " en ",
                        req.Location, " el ",
                        Format(req.EventDate, "02/01/2006 15:04")>>),
                    sesOK)
             ELSE [ err |-> Nil, effects |-> queued.effects ]

NotifyEventCreated(req, sqsOK, sesOK) ==
    LET msg == EventNotificationMessage(req, "event_created_template")
        queued == SendEventNotification(eventQueue, msg, sqsOK)
    IN  IF queued.err # Nil
        THEN [ err     |-> Some("error sending event notification to queue"),
               effects |-> queued.effects ]
        ELSE IF req.Priority = NotificationPriorityHigh
                \/ req.Priority = NotificationPriorityUrgent
             THEN immediateEmail(queued,
                    immediateNotification(req,
                      <<"Nuevo Evento: ", req.EventName>>,
                      <<"Se ha creado un nuevo evento: ", req.EventName, " en ",
                        req.Location, " el ",
                        Format(req.EventDate, "02/01/2006 15:04")>>),
                    sesOK)
             ELSE [ err |-> Nil, effects |-> queued.effects ]

\* Mutant: the failure of the queue send is logged and not returned.
SendEventReminder_DropsError(req, sqsOK) ==
    LET msg == ReminderMessage(req)
        queued == SendReminderMessage(reminderQueue, msg, sqsOK)
    IN  [ err |-> Nil, effects |-> queued.effects ]

\* Mutant: the reminder goes to the events queue.
SendEventReminder_EventsQueue(req, sqsOK) ==
    LET msg == ReminderMessage(req)
        queued == SendReminderMessage(eventQueue, msg, sqsOK)
    IN  IF queued.err # Nil
        THEN [ err     |-> Some("error sending reminder to queue"),
               effects |-> queued.effects ]
        ELSE [ err |-> Nil, effects |-> queued.effects ]

SendEventReminder(req, sqsOK) ==
    LET msg == ReminderMessage(req)
        queued == SendReminderMessage(reminderQueue, msg, sqsOK)
    IN  IF queued.err # Nil
        THEN [ err     |-> Some("error sending reminder to queue"),
               effects |-> queued.effects ]
        ELSE [ err |-> Nil, effects |-> queued.effects ]

\* Mutant: a cancellation is emailed only at high or urgent priority.
NotifyEventCancelled_ByPriority(req, sqsOK, sesOK) ==
    LET msg == EventNotificationMessage(req, "event_cancelled_template")
        queued == SendEventNotification(eventQueue, msg, sqsOK)
    IN  IF queued.err # Nil
        THEN [ err     |-> Some("error sending event cancellation to queue"),
               effects |-> queued.effects ]
        ELSE IF req.Priority = NotificationPriorityHigh
                \/ req.Priority = NotificationPriorityUrgent
             THEN immediateEmail(queued,
                    immediateNotification(req,
                      <<"Evento Cancelado: ", req.EventName>>,
                      <<"El evento '", req.EventName, "' programado para el ",
                        Format(req.EventDate, "02/01/2006 15:04"), " en ",
                        req.Location, " ha sido cancelado.">>),
                    sesOK)
             ELSE [ err |-> Nil, effects |-> queued.effects ]

NotifyEventCancelled(req, sqsOK, sesOK) ==
    LET msg == EventNotificationMessage(req, "event_cancelled_template")
        queued == SendEventNotification(eventQueue, msg, sqsOK)
    IN  IF queued.err # Nil
        THEN [ err     |-> Some("error sending event cancellation to queue"),
               effects |-> queued.effects ]
        ELSE immediateEmail(queued,
               immediateNotification(req,
                 <<"Evento Cancelado: ", req.EventName>>,
                 <<"El evento '", req.EventName, "' programado para el ",
                   Format(req.EventDate, "02/01/2006 15:04"), " en ",
                   req.Location, " ha sido cancelado.">>),
               sesOK)

NotifyReservationCreated(req, sqsOK, sesOK) ==
    LET msg == ReservationNotificationMessage(req, "reservation_created_template")
        queued == SendReservationNotification(reservationQueue, msg, sqsOK)
    IN  IF queued.err # Nil
        THEN [ err     |-> Some("error sending reservation notification to queue"),
               effects |-> queued.effects ]
        ELSE immediateEmail(queued,
               immediateNotification(req,
                 <<"Reserva Confirmada: ", req.EventName>>,
                 <<"Tu reserva para el evento '", req.EventName, "' el ",
                   Format(req.EventDate, "02/01/2006 15:04"), " en ",
                   req.Location, " ha sido confirmada. ID de reserva: ",
                   req.ReservationID>>),
               sesOK)

\* Mutant: a confirmation is emailed like a creation.
NotifyReservationConfirmed_Emails(req, sqsOK) ==
    LET msg == ReservationNotificationMessage(req, "reservation_confirmed_template")
        queued == SendReservationNotification(reservationQueue, msg, sqsOK)
    IN  IF queued.err # Nil
        THEN [ err     |-> Some("error sending reservation confirmation to queue"),
               effects |-> queued.effects ]
        ELSE immediateEmail(queued,
               immediateNotification(req,
                 <<"Reserva Confirmada: ", req.EventName>>,
                 <<"Tu reserva para el evento '", req.EventName, "' el ",
                   Format(req.EventDate, "02/01/2006 15:04"), " en ",
                   req.Location, " ha sido confirmada. ID de reserva: ",
                   req.ReservationID>>),
               TRUE)

NotifyReservationConfirmed(req, sqsOK) ==
    LET msg == ReservationNotificationMessage(req, "reservation_confirmed_template")
        queued == SendReservationNotification(reservationQueue, msg, sqsOK)
    IN  IF queued.err # Nil
        THEN [ err     |-> Some("error sending reservation confirmation to queue"),
               effects |-> queued.effects ]
        ELSE [ err |-> Nil, effects |-> queued.effects ]

\* Mutant: the email is sent first, and whatever becomes of the queue send.
NotifyReservationCancelled_EmailsFirst(req, sqsOK, sesOK) ==
    LET msg == ReservationNotificationMessage(req, "reservation_cancelled_template")
        queued == SendReservationNotification(reservationQueue, msg, sqsOK)
        mail == sendEmailNotification(
                  immediateNotification(req,
                    <<"Reserva Cancelada: ", req.EventName>>,
                    <<"Tu reserva para el evento '", req.EventName, "' el ",
                      Format(req.EventDate, "02/01/2006 15:04"), " en ",
                      req.Location, " ha sido cancelada. ID de reserva: ",
                      req.ReservationID>>),
                  sesOK)
    IN  [ err     |-> IF queued.err # Nil
                      THEN Some("error sending reservation cancellation to queue")
                      ELSE Nil,
          effects |-> mail.effects \o queued.effects ]

NotifyReservationCancelled(req, sqsOK, sesOK) ==
    LET msg == ReservationNotificationMessage(req, "reservation_cancelled_template")
        queued == SendReservationNotification(reservationQueue, msg, sqsOK)
    IN  IF queued.err # Nil
        THEN [ err     |-> Some("error sending reservation cancellation to queue"),
               effects |-> queued.effects ]
        ELSE immediateEmail(queued,
               immediateNotification(req,
                 <<"Reserva Cancelada: ", req.EventName>>,
                 <<"Tu reserva para el evento '", req.EventName, "' el ",
                   Format(req.EventDate, "02/01/2006 15:04"), " en ",
                   req.Location, " ha sido cancelada. ID de reserva: ",
                   req.ReservationID>>),
               sesOK)

----------------------------------------------------------------------------
(* internal/service: ProcessNotificationQueue *)

\* The maximum number of messages asked of one receive.
ReceiveMax == 10

\* The messages one receive on a queue can return when asked for at most
\* maxMessages: any selection of distinct messages of the queue, in any
\* order.  A message is known by its position in the queue at the time of
\* the receive, which stands for its MessageId and its ReceiptHandle.
Receivable(queue, maxMessages) ==
    LET n    == Len(queue)
        most == IF n < maxMessages THEN n ELSE maxMessages
        picks == { f \in UNION { [1..k -> 1..n] : k \in 0..most } :
                     \A i, j \in DOMAIN f : i # j => f[i] # f[j] }
    IN  { [ i \in DOMAIN picked |-> [ MessageId     |-> picked[i],
                                      ReceiptHandle |-> picked[i],
                                      Body          |-> queue[picked[i]].Body ] ] :
            picked \in picks }

\* SQSClient.ReceiveMessages on queue q: sqsOK is the outcome of the receive,
\* messages what the queue hands out when it succeeds.
ReceiveMessages(q, maxMessages, messages, sqsOK) ==
    [ messages |-> IF sqsOK THEN messages ELSE <<>>,
      err      |-> IF sqsOK THEN Nil ELSE Some("error receiving SQS messages"),
      effects  |-> << [ kind |-> "receive", target |-> q,
                        body |-> maxMessages, ok |-> sqsOK ] >> ]

\* SQSClient.DeleteMessage on queue q.
DeleteMessage(q, receiptHandle, sqsOK) ==
    [ err     |-> IF sqsOK THEN Nil ELSE Some("error deleting SQS message"),
      effects |-> << [ kind |-> "delete", target |-> q,
                       body |-> receiptHandle, ok |-> sqsOK ] >> ]

\* processMessage: logs the message and returns no error, for every queue
\* type and every body.
\* Mutant: the handling of a reminder fails.
processMessage_FailsOnReminders(message, queueType) ==
    [ err     |-> IF queueType = "reminders"
                  THEN Some("error processing reminder") ELSE Nil,
      effects |-> << [ kind |-> "handle", target |-> queueType,
                       body |-> message.MessageId,
                       ok   |-> queueType # "reminders" ] >> ]

processMessage(message, queueType) ==
    [ err     |-> Nil,
      effects |-> << [ kind |-> "handle", target |-> queueType,
                       body |-> message.MessageId, ok |-> TRUE ] >> ]

\* Mutant: a message is deleted before it is handled.
RECURSIVE processLoop_DeletesFirst(_, _, _, _, _)
processLoop_DeletesFirst(client, queueType, messages, i, deleteOKs) ==
    IF i > Len(messages)
    THEN <<>>
    ELSE DeleteMessage(client, messages[i].ReceiptHandle, deleteOKs[i]).effects
           \o processMessage(messages[i], queueType).effects
           \o processLoop_DeletesFirst(client, queueType, messages, i + 1,
                                       deleteOKs)

\* Mutant: the loop ends at the first delete that fails.
RECURSIVE processLoop_StopsAtDeleteFailure(_, _, _, _, _)
processLoop_StopsAtDeleteFailure(client, queueType, messages, i, deleteOKs) ==
    IF i > Len(messages)
    THEN <<>>
    ELSE LET handled == processMessage(messages[i], queueType)
             rest    == IF deleteOKs[i]
                        THEN processLoop_StopsAtDeleteFailure(
                                 client, queueType, messages, i + 1, deleteOKs)
                        ELSE <<>>
         IN  handled.effects
               \o DeleteMessage(client, messages[i].ReceiptHandle,
                                deleteOKs[i]).effects
               \o rest

\* The loop of ProcessNotificationQueue from message i on; deleteOKs[i] is
\* the outcome of the delete of message i.
RECURSIVE processLoop(_, _, _, _, _)
processLoop(client, queueType, messages, i, deleteOKs) ==
    IF i > Len(messages)
    THEN <<>>
    ELSE LET handled == processMessage(messages[i], queueType)
             rest    == processLoop(client, queueType, messages, i + 1, deleteOKs)
         IN  IF handled.err # Nil
             THEN handled.effects \o rest
             ELSE handled.effects
                    \o DeleteMessage(client, messages[i].ReceiptHandle,
                                     deleteOKs[i]).effects
                    \o rest

\* Mutant: an unknown queue type is served from the events queue.
ProcessNotificationQueue_DefaultsToEvents(queueType, messages, receiveOK, deleteOKs) ==
    IF queueType \notin {"events", "reservations", "reminders"}
    THEN [ err     |-> Some("invalid queue type"),
           effects |-> ReceiveMessages(eventQueue, ReceiveMax, <<>>,
                                       receiveOK).effects ]
    ELSE LET client   == CASE queueType = "events"       -> eventQueue
                           [] queueType = "reservations" -> reservationQueue
                           [] queueType = "reminders"    -> reminderQueue
             received == ReceiveMessages(client, ReceiveMax, messages, receiveOK)
             looped   == processLoop(client, queueType, received.messages, 1,
                                     deleteOKs)
         IN  IF received.err # Nil
             THEN [ err     |-> Some("error receiving messages"),
                    effects |-> received.effects ]
             ELSE [ err     |-> Nil,
                    effects |-> received.effects \o looped ]

\* Mutant: a second receive follows the batch.
ProcessNotificationQueue_Drains(queueType, messages, receiveOK, deleteOKs) ==
    IF queueType \notin {"events", "reservations", "reminders"}
    THEN [ err |-> Some("invalid queue type"), effects |-> <<>> ]
    ELSE LET client   == CASE queueType = "events"       -> eventQueue
                           [] queueType = "reservations" -> reservationQueue
                           [] queueType = "reminders"    -> reminderQueue
             received == ReceiveMessages(client, ReceiveMax, messages, receiveOK)
             looped   == processLoop(client, queueType, received.messages, 1,
                                     deleteOKs)
         IN  IF received.err # Nil
             THEN [ err     |-> Some("error receiving messages"),
                    effects |-> received.effects ]
             ELSE [ err     |-> Nil,
                    effects |-> received.effects \o looped
                                  \o ReceiveMessages(client, ReceiveMax, <<>>,
                                                     TRUE).effects ]

\* Mutant: the deletes go through the client of the events queue.
ProcessNotificationQueue_DeletesFromEvents(queueType, messages, receiveOK, deleteOKs) ==
    IF queueType \notin {"events", "reservations", "reminders"}
    THEN [ err |-> Some("invalid queue type"), effects |-> <<>> ]
    ELSE LET client   == CASE queueType = "events"       -> eventQueue
                           [] queueType = "reservations" -> reservationQueue
                           [] queueType = "reminders"    -> reminderQueue
             received == ReceiveMessages(client, ReceiveMax, messages, receiveOK)
         IN  IF received.err # Nil
             THEN [ err     |-> Some("error receiving messages"),
                    effects |-> received.effects ]
             ELSE [ err     |-> Nil,
                    effects |-> received.effects
                                  \o processLoop(eventQueue, queueType,
                                                 received.messages, 1, deleteOKs) ]

\* Mutant: a delete that fails makes the call fail.
ProcessNotificationQueue_FailsOnDelete(queueType, messages, receiveOK, deleteOKs) ==
    IF queueType \notin {"events", "reservations", "reminders"}
    THEN [ err |-> Some("invalid queue type"), effects |-> <<>> ]
    ELSE LET client   == CASE queueType = "events"       -> eventQueue
                           [] queueType = "reservations" -> reservationQueue
                           [] queueType = "reminders"    -> reminderQueue
             received == ReceiveMessages(client, ReceiveMax, messages, receiveOK)
             looped   == processLoop(client, queueType, received.messages, 1,
                                     deleteOKs)
         IN  IF received.err # Nil
             THEN [ err     |-> Some("error receiving messages"),
                    effects |-> received.effects ]
             ELSE [ err     |-> IF \E k \in DOMAIN looped :
                                      looped[k].kind = "delete" /\ ~looped[k].ok
                                 THEN Some("error deleting message")
                                 ELSE Nil,
                    effects |-> received.effects \o looped ]

ProcessNotificationQueue(queueType, messages, receiveOK, deleteOKs) ==
    IF queueType \notin {"events", "reservations", "reminders"}
    THEN [ err |-> Some("invalid queue type"), effects |-> <<>> ]
    ELSE LET client   == CASE queueType = "events"       -> eventQueue
                           [] queueType = "reservations" -> reservationQueue
                           [] queueType = "reminders"    -> reminderQueue
             received == ReceiveMessages(client, ReceiveMax, messages, receiveOK)
         IN  IF received.err # Nil
             THEN [ err     |-> Some("error receiving messages"),
                    effects |-> received.effects ]
             ELSE [ err     |-> Nil,
                    effects |-> received.effects
                                  \o processLoop(client, queueType,
                                                 received.messages, 1, deleteOKs) ]

----------------------------------------------------------------------------
(* internal/db: DynamoClient, table "notifications" *)

\* uuid.UUID.String: the canonical text of an identifier.
String(id) == <<"uuid", id>>

\* The table with no item.
EmptyTable == [ k \in {} |-> Nil ]

\* PutItem: the item replaces whatever the table held under its key.
PutItem(table, key, item) ==
    [ k \in DOMAIN table \cup {key} |-> IF k = key THEN item ELSE table[k] ]

\* Mutant: the item of the key is replaced by the key and the named
\* attributes.
UpdateItem_Overwrites(table, key, attributes) ==
    PutItem(table, key,
            [ a \in {"id"} \cup DOMAIN attributes |->
                IF a \in DOMAIN attributes THEN attributes[a] ELSE key ])

\* UpdateItem with a SET expression and no condition: the named attributes
\* are written into the item of that key; when the table holds no item of
\* that key, the item is created with the key and the named attributes.
UpdateItem(table, key, attributes) ==
    LET old == IF key \in DOMAIN table
               THEN table[key]
               ELSE [ a \in {"id"} |-> key ]
    IN  PutItem(table, key,
                [ a \in DOMAIN old \cup DOMAIN attributes |->
                    IF a \in DOMAIN attributes THEN attributes[a] ELSE old[a] ])

\* DeleteItem: the table without the item of that key, if any.
DeleteItem(table, key) == [ k \in DOMAIN table \ {key} |-> table[k] ]

\* fmt.Sprintf("%v", v).
Sprintf(v) == <<"%v", v>>

\* The item SaveNotification writes for a notification: sent_at, read_at
\* and data are attributes of the item only when the notification has them.
NotificationItem(notification) ==
    LET optional == (IF notification.SentAt # Nil THEN {"sent_at"} ELSE {})
                      \cup (IF notification.ReadAt # Nil THEN {"read_at"} ELSE {})
                      \cup (IF Len(notification.Data) > 0 THEN {"data"} ELSE {})
    IN  [ a \in {"id", "type", "status", "priority", "recipient", "subject",
                 "content", "template_id", "created_at", "updated_at"}
                   \cup optional |->
            CASE a = "id"          -> String(notification.ID)
              [] a = "type"        -> notification.Type
              [] a = "status"      -> notification.Status
              [] a = "priority"    -> notification.Priority
              [] a = "recipient"   -> notification.Recipient
              [] a = "subject"     -> notification.Subject
              [] a = "content"     -> notification.Content
              [] a = "template_id" -> notification.TemplateID
              [] a = "created_at"  -> Format(notification.CreatedAt, RFC3339)
              [] a = "updated_at"  -> Format(notification.UpdatedAt, RFC3339)
              [] a = "sent_at"     -> Format(notification.SentAt[1], RFC3339)
              [] a = "read_at"     -> Format(notification.ReadAt[1], RFC3339)
              [] a = "data"        -> Sprintf(notification.Data) ]

\* DynamoClient.SaveNotification; ddbOK is the outcome of the PutItem.
SaveNotification(table, notification, ddbOK) ==
    IF ddbOK
    THEN [ table |-> PutItem(table, String(notification.ID),
                             NotificationItem(notification)),
           err   |-> Nil ]
    ELSE [ table |-> table, err |-> Some("Error guardando notificacion") ]

\* uuid.Parse of the text of an identifier.
UUIDParse(text) == text[2]

\* The zero time.Time, before every reading of the clock.
ZeroTime == -1

\* unmarshalNotification: the Notification of an item.  An attribute the
\* item lacks leaves the zero value of its field; the data attribute is not
\* read.
unmarshalNotification(item) ==
    LET str(a) == IF a \in DOMAIN item THEN item[a] ELSE ""
        when(a) == IF a \in DOMAIN item THEN Parse(RFC3339, item[a]) ELSE ZeroTime
        opt(a) == IF a \in DOMAIN item THEN Some(Parse(RFC3339, item[a])) ELSE Nil
    IN  [ ID         |-> IF "id" \in DOMAIN item THEN UUIDParse(item["id"]) ELSE NilUUID,
          Type       |-> str("type"),
          Status     |-> str("status"),
          Priority   |-> str("priority"),
          Recipient  |-> str("recipient"),
          Subject    |-> str("subject"),
          Content    |-> str("content"),
          TemplateID |-> str("template_id"),
          Data       |-> <<>>,
          SentAt     |-> opt("sent_at"),
          ReadAt     |-> opt("read_at"),
          CreatedAt  |-> when("created_at"),
          UpdatedAt  |-> when("updated_at") ]

\* DynamoClient.GetNotificationByID; ddbOK is the outcome of the GetItem.
GetNotificationByID(table, notificationID, ddbOK) ==
    IF ~ddbOK
    THEN [ notification |-> Nil, err |-> Some("GetItem failed") ]
    ELSE IF notificationID \notin DOMAIN table
    THEN [ notification |-> Nil, err |-> Some("notification not found") ]
    ELSE [ notification |-> Some(unmarshalNotification(table[notificationID])),
           err |-> Nil ]

\* Mutant: created_at is refreshed together with updated_at.
UpdateNotification_TouchesCreatedAt(table, notificationID, updates, t, ddbOK) ==
    LET attributes ==
            [ a \in DOMAIN updates \cup {"updated_at", "created_at"} |->
                CASE a \in {"updated_at", "created_at"} -> Format(t, RFC3339)
                  [] a = "status" -> updates[a]
                  [] OTHER        -> Format(updates[a], RFC3339) ]
    IN  IF ddbOK
        THEN [ table |-> UpdateItem(table, notificationID, attributes),
               err   |-> Nil ]
        ELSE [ table |-> table, err |-> Some("UpdateItem failed") ]

\* Mutant: updated_at is written as the zero time.
UpdateNotification_ZeroTime(table, notificationID, updates, t, ddbOK) ==
    LET attributes ==
            [ a \in DOMAIN updates \cup {"updated_at"} |->
                CASE a = "updated_at" -> Format(0, RFC3339)
                  [] a = "status"     -> updates[a]
                  [] OTHER            -> Format(updates[a], RFC3339) ]
    IN  IF ddbOK
        THEN [ table |-> UpdateItem(table, notificationID, attributes),
               err   |-> Nil ]
        ELSE [ table |-> table, err |-> Some("UpdateItem failed") ]

\* DynamoClient.UpdateNotification: every key of updates is written as
\* given, a time as its RFC3339 text, and updated_at is set to the clock
\* reading t; ddbOK is the outcome of the UpdateItem.
UpdateNotification(table, notificationID, updates, t, ddbOK) ==
    LET attributes ==
            [ a \in DOMAIN updates \cup {"updated_at"} |->
                CASE a = "updated_at" -> Format(t, RFC3339)
                  [] a = "status"     -> updates[a]
                  [] OTHER            -> Format(updates[a], RFC3339) ]
    IN  IF ddbOK
        THEN [ table |-> UpdateItem(table, notificationID, attributes),
               err   |-> Nil ]
        ELSE [ table |-> table, err |-> Some("UpdateItem failed") ]

\* DynamoClient.DeleteNotification; ddbOK is the outcome of the DeleteItem.
DeleteNotification(table, notificationID, ddbOK) ==
    IF ddbOK
    THEN [ table |-> DeleteItem(table, notificationID), err |-> Nil ]
    ELSE [ table |-> table, err |-> Some("DeleteItem failed") ]

----------------------------------------------------------------------------
(* internal/handlers: NotificationHandler *)

StatusBadRequest == 400
StatusCreated == 201
StatusOK == 200
StatusInternalServerError == 500
StatusNotFound == 404

\* UpdateNotificationRequest values the callers send at time t: each field
\* present or absent, a time being the caller's reading of the clock.
UpdateNotificationRequest(t) ==
    [ Status : { Nil, Some(NotificationStatusPending), Some(NotificationStatusRead) },
      SentAt : { Nil, Some(t) },
      ReadAt : { Nil, Some(t) } ]

\* The updates map the UpdateNotification handler builds from a request.
updatesOf(req) ==
    [ a \in (IF req.Status # Nil THEN {"status"} ELSE {})
              \cup (IF req.SentAt # Nil THEN {"sent_at"} ELSE {})
              \cup (IF req.ReadAt # Nil THEN {"read_at"} ELSE {}) |->
        CASE a = "status"  -> req.Status[1]
          [] a = "sent_at" -> req.SentAt[1]
          [] a = "read_at" -> req.ReadAt[1] ]

\* Mutant: a failed save makes the request fail.
SendNotificationHandler_FailsOnSaveError(table, req, id, t1, t2, t3, sesOK, ddbOK) ==
    IF req.Recipient = "" \/ req.Subject = "" \/ req.Content = ""
    THEN [ code |-> StatusBadRequest, data |-> Nil, table |-> table,
           saveErr |-> Nil, effects |-> <<>> ]
    ELSE LET res == SendNotification(req, id, t1, t2, t3, sesOK)
             saved == SaveNotification(table, res.notification, ddbOK)
         IN  IF saved.err # Nil
             THEN [ code |-> StatusInternalServerError, data |-> Nil,
                    table |-> table, saveErr |-> saved.err,
                    effects |-> res.effects ]
             ELSE [ code    |-> StatusCreated,
                    data    |-> Some(res.notification),
                    table   |-> saved.table,
                    saveErr |-> saved.err,
                    effects |-> res.effects ]

\* Handler SendNotification: validation, the service call, then the save,
\* whose failure is only logged.
SendNotificationHandler(table, req, id, t1, t2, t3, sesOK, ddbOK) ==
    IF req.Recipient = "" \/ req.Subject = "" \/ req.Content = ""
    THEN [ code |-> StatusBadRequest, data |-> Nil, table |-> table,
           saveErr |-> Nil, effects |-> <<>> ]
    ELSE LET res == SendNotification(req, id, t1, t2, t3, sesOK)
         IN  IF res.err # Nil
             THEN [ code |-> StatusInternalServerError, data |-> Nil,
                    table |-> table, saveErr |-> Nil, effects |-> res.effects ]
             ELSE LET saved == SaveNotification(table, res.notification, ddbOK)
                  IN  [ code    |-> StatusCreated,
                        data    |-> Some(res.notification),
                        table   |-> saved.table,
                        saveErr |-> saved.err,
                        effects |-> res.effects ]

\* Handler UpdateNotification: a request naming no field is rejected; any
\* other is handed to the table as it is.
UpdateNotificationHandler(table, notificationID, req, t, ddbOK) ==
    LET updates == updatesOf(req)
    IN  IF DOMAIN updates = {}
        THEN [ code |-> StatusBadRequest, table |-> table ]
        ELSE LET res == UpdateNotification(table, notificationID, updates, t, ddbOK)
             IN  IF res.err # Nil
                 THEN [ code |-> StatusInternalServerError, table |-> table ]
                 ELSE [ code |-> StatusOK, table |-> res.table ]

\* Handler GetNotification: not found when the table holds no item of the
\* identifier.
GetNotificationHandler(table, notificationID, ddbOK) ==
    IF notificationID = ""
    THEN [ code |-> StatusBadRequest, data |-> Nil ]
    ELSE LET res == GetNotificationByID(table, notificationID, ddbOK)
         IN  IF res.err # Nil
             THEN IF res.err = Some("notification not found")
                  THEN [ code |-> StatusNotFound, data |-> Nil ]
                  ELSE [ code |-> StatusInternalServerError, data |-> Nil ]
             ELSE [ code |-> StatusOK, data |-> res.notification ]

\* Handler DeleteNotification.
DeleteNotificationHandler(table, notificationID, ddbOK) ==
    LET res == DeleteNotification(table, notificationID, ddbOK)
    IN  IF res.err # Nil
        THEN [ code |-> StatusInternalServerError, table |-> table ]
        ELSE [ code |-> StatusOK, table |-> res.table ]

\* Mutant: the required fields are looked at after the service call.
NotifyEventCreatedHandler_ValidatesLate(req, sqsOK, sesOK) ==
    LET req1 == IF req.Priority = ""
                THEN [req EXCEPT !.Priority = NotificationPriorityNormal]
                ELSE req
        res  == NotifyEventCreated(req1, sqsOK, sesOK)
    IN  IF req.EventID = "" \/ req.EventName = "" \/ req.Recipient = ""
        THEN [ code |-> StatusBadRequest, effects |-> res.effects ]
        ELSE [ code    |-> IF res.err # Nil THEN StatusInternalServerError
                                            ELSE StatusOK,
               effects |-> res.effects ]

\* Handler NotifyEventCreated: the required fields, the default priority,
\* then the service call.
NotifyEventCreatedHandler(req, sqsOK, sesOK) ==
    IF req.EventID = "" \/ req.EventName = "" \/ req.Recipient = ""
    THEN [ code |-> StatusBadRequest, effects |-> <<>> ]
    ELSE LET req1 == IF req.Priority = ""
                     THEN [req EXCEPT !.Priority = NotificationPriorityNormal]
                     ELSE req
             res  == NotifyEventCreated(req1, sqsOK, sesOK)
         IN  [ code    |-> IF res.err # Nil THEN StatusInternalServerError
                                             ELSE StatusOK,
               effects |-> res.effects ]

\* Handler NotifyReservationCreated: the required fields, then the service
\* call.
NotifyReservationCreatedHandler(req, sqsOK, sesOK) ==
    IF \/ req.ReservationID = "" \/ req.EventID = ""
       \/ req.EventName = "" \/ req.Recipient = ""
    THEN [ code |-> StatusBadRequest, effects |-> <<>> ]
    ELSE LET res == NotifyReservationCreated(req, sqsOK, sesOK)
         IN  [ code    |-> IF res.err # Nil THEN StatusInternalServerError
                                             ELSE StatusOK,
               effects |-> res.effects ]

\* The queue types the queue handler accepts.
validTypes == {"events", "reservations", "reminders"}

\* QueueHandler.ProcessNotificationQueue: the type parameter must be present
\* and valid, then the service call.
ProcessNotificationQueueHandler(queueType, messages, receiveOK, deleteOKs) ==
    IF queueType = ""
    THEN [ code |-> StatusBadRequest, effects |-> <<>> ]
    ELSE IF queueType \notin validTypes
    THEN [ code |-> StatusBadRequest, effects |-> <<>> ]
    ELSE LET res == ProcessNotificationQueue(queueType, messages,
                                             receiveOK, deleteOKs)
         IN  [ code    |-> IF res.err # Nil THEN StatusInternalServerError
                                             ELSE StatusOK,
               effects |-> res.effects ]

----------------------------------------------------------------------------
(* State machine *)

QueueTypes == {"events", "reservations", "reminders"}

Idle == [op |-> "idle"]

\* The clock reading when the service starts: the middle of a second.
StartTime == 1

Init ==
    /\ queues = [q \in QueueTypes |-> <<>>]
    /\ now = StartTime
    /\ nextID = 1
    /\ call = Idle
    /\ store = EmptyTable

\* Time passes between calls.
Tick ==
    /\ now < MaxTime
    /\ now' = now + 1
    /\ UNCHANGED <<queues, nextID, call, store>>

\* The caller takes the result of the completed call.
Return ==
    /\ call.op # "idle"
    /\ call' = Idle
    /\ UNCHANGED <<queues, now, nextID, store>>

\* The clock readings of one SendNotification call that starts at time t:
\* three successive readings; the third is taken only after a successful send.
ClockReadings(t, sesOK) ==
    { r \in (t..MaxTime) \X (t..MaxTime) \X (t..MaxTime) :
        /\ r[1] <= r[2]
        /\ r[2] <= r[3]
        /\ (~sesOK => r[3] = r[2]) }

SendNotificationCall ==
    /\ call.op = "idle"
    /\ nextID <= MaxIDs
    /\ \E req \in CreateNotificationRequest, sesOK \in BOOLEAN :
         \E r \in ClockReadings(now, sesOK) :
            LET res == SendNotification(req, nextID, r[1], r[2], r[3], sesOK)
            IN  /\ call' = [ op           |-> "SendNotification",
                             req          |-> req,
                             sesOK        |-> sesOK,
                             notification |-> res.notification,
                             err          |-> res.err,
                             effects      |-> res.effects ]
                /\ now' = r[3]
                /\ nextID' = nextID + 1
    /\ UNCHANGED <<queues, store>>

\* The clock readings of a bulk call that starts at time t, one triple per
\* item, the items being sent one after the other.
RECURSIVE BulkReadings(_, _)
BulkReadings(t, oks) ==
    IF oks = <<>>
    THEN { <<>> }
    ELSE UNION { { <<r>> \o rest : rest \in BulkReadings(r[3], Tail(oks)) } :
                 r \in ClockReadings(t, Head(oks)) }

SendBulkNotificationsCall ==
    /\ call.op = "idle"
    /\ \E req \in BulkNotificationRequest :
         LET n == Len(req.Notifications)
         IN  /\ nextID + n - 1 <= MaxIDs
             /\ \E oks \in [1..n -> BOOLEAN] :
                  \E readings \in BulkReadings(now, oks) :
                     LET res == SendBulkNotifications(req, nextID, readings, oks)
                     IN  /\ call' = [ op            |-> "SendBulkNotifications",
                                      req           |-> req,
                                      sesOK         |-> oks,
                                      notifications |-> res.notifications,
                                      err           |-> res.err,
                                      effects       |-> res.effects ]
                         /\ now' = IF n = 0 THEN now ELSE readings[n][3]
                         /\ nextID' = nextID + n
    /\ UNCHANGED <<queues, store>>

SendNext ==
    \/ Tick
    \/ Return
    \/ SendNotificationCall
    \/ SendBulkNotificationsCall

SendSpec == Init /\ [][SendNext]_vars

\* The SQS queues after the transport operations of a call: every queue send
\* that succeeded has appended its message to its queue.
RECURSIVE Deliver(_, _)
Deliver(qs, effects) ==
    IF effects = <<>>
    THEN qs
    ELSE LET e == Head(effects)
             next == IF e.kind = "enqueue" /\ e.ok
                     THEN [qs EXCEPT ![e.target] = Append(@, e.body)]
                     ELSE qs
         IN  Deliver(next, Tail(effects))

TotalQueued == Len(queues["events"]) + Len(queues["reservations"]) + Len(queues["reminders"])

\* A call of a notify method completes with result res.
\* Mutant: the call stores a record of what it emailed.
Completes_StoresEmailed(op, req, sqsOK, res) ==
    /\ call' = [ op      |-> op,
                 req     |-> req,
                 sqsOK   |-> sqsOK,
                 err     |-> res.err,
                 effects |-> res.effects ]
    /\ queues' = Deliver(queues, res.effects)
    /\ store' = IF \E i \in 1..Len(res.effects) : res.effects[i].kind = "email"
                THEN PutItem(store, String(nextID), [recipient |-> req.Recipient])
                ELSE store
    /\ UNCHANGED <<now, nextID>>

\* A call of an event or reservation operation completes: its result is
\* recorded and the messages it sent are in their queues.
Completes(op, req, sqsOK, res) ==
    /\ call' = [ op      |-> op,
                 req     |-> req,
                 sqsOK   |-> sqsOK,
                 err     |-> res.err,
                 effects |-> res.effects ]
    /\ queues' = Deliver(queues, res.effects)
    /\ UNCHANGED <<now, nextID, store>>

NotifyEventCreatedCall ==
    /\ call.op = "idle"
    /\ TotalQueued < MaxQueue
    /\ \E req \in EventNotification("event_created"), sqsOK \in BOOLEAN, sesOK \in BOOLEAN :
         Completes("NotifyEventCreated", req, sqsOK, NotifyEventCreated(req, sqsOK, sesOK))

SendEventReminderCall ==
    /\ call.op = "idle"
    /\ TotalQueued < MaxQueue
    /\ \E req \in EventNotification("event_reminder"), sqsOK \in BOOLEAN :
         Completes("SendEventReminder", req, sqsOK, SendEventReminder(req, sqsOK))

NotifyEventCancelledCall ==
    /\ call.op = "idle"
    /\ TotalQueued < MaxQueue
    /\ \E req \in EventNotification("event_cancelled"), sqsOK \in BOOLEAN, sesOK \in BOOLEAN :
         Completes("NotifyEventCancelled", req, sqsOK, NotifyEventCancelled(req, sqsOK, sesOK))

NotifyReservationCreatedCall ==
    /\ call.op = "idle"
    /\ TotalQueued < MaxQueue
    /\ \E req \in ReservationNotification("reservation_created"),
          sqsOK \in BOOLEAN, sesOK \in BOOLEAN :
         Completes("NotifyReservationCreated", req, sqsOK,
                   NotifyReservationCreated(req, sqsOK, sesOK))

NotifyReservationConfirmedCall ==
    /\ call.op = "idle"
    /\ TotalQueued < MaxQueue
    /\ \E req \in ReservationNotification("reservation_confirmed"), sqsOK \in BOOLEAN :
         Completes("NotifyReservationConfirmed", req, sqsOK,
                   NotifyReservationConfirmed(req, sqsOK))

NotifyReservationCancelledCall ==
    /\ call.op = "idle"
    /\ TotalQueued < MaxQueue
    /\ \E req \in ReservationNotification("reservation_cancelled"),
          sqsOK \in BOOLEAN, sesOK \in BOOLEAN :
         Completes("NotifyReservationCancelled", req, sqsOK,
                   NotifyReservationCancelled(req, sqsOK, sesOK))

Next ==
    \/ Return
    \/ NotifyEventCreatedCall
    \/ SendEventReminderCall
    \/ NotifyEventCancelledCall
    \/ NotifyReservationCreatedCall
    \/ NotifyReservationConfirmedCall
    \/ NotifyReservationCancelledCall

Spec == Init /\ [][Next]_vars

\* The messages of a queue that are left once those of the given positions
\* have been deleted, from position i on.
RECURSIVE Remaining(_, _, _)
Remaining(queue, i, deleted) ==
    IF i > Len(queue)
    THEN <<>>
    ELSE (IF i \in deleted THEN <<>> ELSE <<queue[i]>>)
           \o Remaining(queue, i + 1, deleted)

\* The SQS queues after the transport operations of a ProcessNotificationQueue
\* call: every delete that succeeded has removed its message.  A message
\* that was received and not deleted becomes visible again in its queue.
\* Mutant: a message leaves its queue as soon as a delete is asked for it.
Acknowledge_DropsAttempted(qs, effects) ==
    [ q \in DOMAIN qs |->
        Remaining(qs[q], 1,
                  { effects[k].body : k \in { k \in DOMAIN effects :
                        /\ effects[k].kind = "delete"
                        /\ effects[k].target = q } }) ]

Acknowledge(qs, effects) ==
    [ q \in DOMAIN qs |->
        Remaining(qs[q], 1,
                  { effects[k].body : k \in { k \in DOMAIN effects :
                        /\ effects[k].kind = "delete"
                        /\ effects[k].target = q
                        /\ effects[k].ok } }) ]

\* The queue types a caller of the service may pass.
QueueTypeArgs == QueueTypes \cup {"invalid"}

\* The outcomes the deletes of n messages can have when the context of the
\* call is cancelled once the first ctxDone messages have been dealt with
\* (never, when ctxDone = n): a delete under a cancelled context fails.
DeleteOutcomes(n, ctxDone) ==
    { oks \in [1..n -> BOOLEAN] : \A i \in 1..n : i > ctxDone => ~oks[i] }

\* A call of ProcessNotificationQueue.  The caller may cancel the context
\* of the call while the loop runs.
ProcessNotificationQueueCall ==
    /\ call.op = "idle"
    /\ \E queueType \in QueueTypeArgs, receiveOK \in BOOLEAN :
         \E messages \in IF receiveOK /\ queueType \in QueueTypes
                          THEN Receivable(queues[queueType], ReceiveMax)
                          ELSE { <<>> } :
            \E ctxDone \in 0..Len(messages) :
            \E deleteOKs \in DeleteOutcomes(Len(messages), ctxDone) :
               LET res == ProcessNotificationQueue(queueType, messages,
                                                   receiveOK, deleteOKs)
               IN  /\ call' = [ op        |-> "ProcessNotificationQueue",
                                queueType |-> queueType,
                                receiveOK |-> receiveOK,
                                messages  |-> messages,
                                ctxDone   |-> ctxDone,
                                deleteOKs |-> deleteOKs,
                                err       |-> res.err,
                                effects   |-> res.effects ]
                   /\ queues' = Acknowledge(queues, res.effects)
    /\ UNCHANGED <<now, nextID, store>>

QueueNext ==
    \/ Next
    \/ ProcessNotificationQueueCall

QueueSpec == Init /\ [][QueueNext]_vars

\* The queue processor with its producers of the reminders and reservations
\* queues, for what holds in the long run.
DeliveryNext ==
    \/ Return
    \/ SendEventReminderCall
    \/ NotifyReservationConfirmedCall
    \/ ProcessNotificationQueueCall

\* The message bodies the producers of DeliveryNext put in each queue.
DeliveryBodies ==
    [ q \in QueueTypes |->
        CASE q = "reminders" ->
               { SendEventReminder(req, TRUE).effects[1].body.Body :
                   req \in EventNotification("event_reminder") }
          [] q = "reservations" ->
               { NotifyReservationConfirmed(req, TRUE).effects[1].body.Body :
                   req \in ReservationNotification("reservation_confirmed") }
          [] OTHER -> {} ]

\* A ProcessNotificationQueue call on queue q that receives the waiting
\* messages and whose deletes succeed.
Consumes(q) ==
    /\ call.op = "idle"
    /\ queues[q] # <<>>
    /\ LET messages  == [ i \in 1..Len(queues[q]) |->
                            [ MessageId     |-> i,
                              ReceiptHandle |-> i,
                              Body          |-> queues[q][i].Body ] ]
           deleteOKs == [ i \in 1..Len(queues[q]) |-> TRUE ]
           res       == ProcessNotificationQueue(q, messages, TRUE, deleteOKs)
       IN  /\ call' = [ op        |-> "ProcessNotificationQueue",
                        queueType |-> q,
                        receiveOK |-> TRUE,
                        messages  |-> messages,
                        ctxDone   |-> Len(messages),
                        deleteOKs |-> deleteOKs,
                        err       |-> res.err,
                        effects   |-> res.effects ]
           /\ queues' = Acknowledge(queues, res.effects)
    /\ UNCHANGED <<now, nextID, store>>

\* Every caller takes the result of its call; and the queue processor is
\* called on each queue again and again, with a receive that hands out the
\* waiting messages and deletes that succeed, again and again.
DeliverySpec ==
    /\ Init
    /\ [][DeliveryNext]_vars
    /\ WF_vars(Return)
    /\ SF_vars(Consumes("reminders"))
    /\ SF_vars(Consumes("reservations"))

\* The requests sent to the send handler in the store specification.
StoreRequests ==
    [ Type       : {"welcome"},
      Priority   : {""},
      Recipient  : {"", "ana@example.com"},
      Subject    : {"", "Hola"},
      Content    : {"", "Bienvenida"},
      TemplateID : {""},
      Data       : DataBags \ { <<>> } ]

\* The identifiers a caller names: those of the notifications returned to
\* callers so far, whether their save succeeded or not.
NotificationIDArgs == { String(id) : id \in 1..(nextID - 1) }

SendNotificationRequest ==
    /\ call.op = "idle"
    /\ nextID <= MaxSends
    /\ \E req \in StoreRequests, sesOK \in BOOLEAN, ddbOK \in BOOLEAN :
         \E r \in ClockReadings(now, sesOK) :
            LET res == SendNotificationHandler(store, req, nextID,
                                               r[1], r[2], r[3], sesOK, ddbOK)
            IN  /\ call' = [ op      |-> "SendNotificationRequest",
                             req     |-> req,
                             code    |-> res.code,
                             data    |-> res.data,
                             saveErr |-> res.saveErr,
                             effects |-> res.effects ]
                /\ store' = res.table
                /\ now' = IF res.data = Nil THEN now ELSE r[3]
                /\ nextID' = IF res.data = Nil THEN nextID ELSE nextID + 1
    /\ UNCHANGED queues

UpdateNotificationRequestCall ==
    /\ call.op = "idle"
    /\ \E notificationID \in NotificationIDArgs, req \in UpdateNotificationRequest(now),
          ddbOK \in BOOLEAN :
         LET res == UpdateNotificationHandler(store, notificationID, req, now, ddbOK)
         IN  /\ call' = [ op   |-> "UpdateNotificationRequest",
                          id   |-> notificationID,
                          req  |-> req,
                          code |-> res.code ]
             /\ store' = res.table
    /\ UNCHANGED <<queues, now, nextID>>

DeleteNotificationRequest ==
    /\ call.op = "idle"
    /\ \E notificationID \in NotificationIDArgs, ddbOK \in BOOLEAN :
         LET res == DeleteNotificationHandler(store, notificationID, ddbOK)
         IN  /\ call' = [ op   |-> "DeleteNotificationRequest",
                          id   |-> notificationID,
                          code |-> res.code ]
             /\ store' = res.table
    /\ UNCHANGED <<queues, now, nextID>>

GetNotificationRequest ==
    /\ call.op = "idle"
    /\ \E notificationID \in NotificationIDArgs, ddbOK \in BOOLEAN :
         LET res == GetNotificationHandler(store, notificationID, ddbOK)
         IN  call' = [ op    |-> "GetNotificationRequest",
                       id    |-> notificationID,
                       ddbOK |-> ddbOK,
                       code  |-> res.code,
                       data  |-> res.data ]
    /\ UNCHANGED <<queues, now, nextID, store>>

StoreNext ==
    \/ Tick
    \/ Return
    \/ SendNotificationRequest
    \/ GetNotificationRequest
    \/ UpdateNotificationRequestCall
    \/ DeleteNotificationRequest

StoreSpec == Init /\ [][StoreNext]_vars

\* The requests of the event and reservation routes, with and without their
\* required fields.
EventRequestArgs ==
    [ EventID   : {"", "evt-1"},
      EventName : {"", "Concierto"},
      EventDate : {250},
      Location  : {"Teatro"},
      Recipient : {"", "ana@example.com"},
      Type      : {"event_created"},
      Priority  : {"", NotificationPriorityHigh} ]

ReservationRequestArgs ==
    [ ReservationID : {"", "res-1"},
      EventID       : {"", "evt-1"},
      EventName     : {"", "Concierto"},
      EventDate     : {250},
      Location      : {"Teatro"},
      Recipient     : {"", "ana@example.com"},
      Type          : {"reservation_created"},
      Priority      : {NotificationPriorityNormal} ]

\* The type parameter of the queue route: absent, unknown or valid.
QueueTypeParams == QueueTypeArgs \cup {""}

NotifyEventCreatedRequest ==
    /\ call.op = "idle"
    /\ TotalQueued < MaxQueue
    /\ \E req \in EventRequestArgs, sqsOK \in BOOLEAN, sesOK \in BOOLEAN :
         LET res == NotifyEventCreatedHandler(req, sqsOK, sesOK)
         IN  /\ call' = [ op      |-> "NotifyEventCreatedRequest",
                          req     |-> req,
                          code    |-> res.code,
                          effects |-> res.effects ]
             /\ queues' = Deliver(queues, res.effects)
    /\ UNCHANGED <<now, nextID, store>>

NotifyReservationCreatedRequest ==
    /\ call.op = "idle"
    /\ TotalQueued < MaxQueue
    /\ \E req \in ReservationRequestArgs, sqsOK \in BOOLEAN, sesOK \in BOOLEAN :
         LET res == NotifyReservationCreatedHandler(req, sqsOK, sesOK)
         IN  /\ call' = [ op      |-> "NotifyReservationCreatedRequest",
                          req     |-> req,
                          code    |-> res.code,
                          effects |-> res.effects ]
             /\ queues' = Deliver(queues, res.effects)
    /\ UNCHANGED <<now, nextID, store>>

ProcessNotificationQueueRequest ==
    /\ call.op = "idle"
    /\ \E queueType \in QueueTypeParams, receiveOK \in BOOLEAN :
         \E messages \in IF receiveOK /\ queueType \in QueueTypes
                          THEN Receivable(queues[queueType], ReceiveMax)
                          ELSE { <<>> } :
            \E deleteOKs \in DeleteOutcomes(Len(messages), Len(messages)) :
               LET res == ProcessNotificationQueueHandler(queueType, messages,
                                                          receiveOK, deleteOKs)
               IN  /\ call' = [ op        |-> "ProcessNotificationQueueRequest",
                                queueType |-> queueType,
                                code      |-> res.code,
                                effects   |-> res.effects ]
                   /\ queues' = Acknowledge(queues, res.effects)
    /\ UNCHANGED <<now, nextID, store>>

\* The routes that can reject a request.
RequestNext ==
    \/ Return
    \/ SendNotificationRequest
    \/ NotifyEventCreatedRequest
    \/ NotifyReservationCreatedRequest
    \/ ProcessNotificationQueueRequest

RequestSpec == Init /\ [][RequestNext]_vars

----------------------------------------------------------------------------
(* State machine of concurrent calls: two goroutines calling the service *)

\* The goroutines that call the one NotificationService value, each making
\* one call.  In ConcSpec the variable call maps each goroutine to the call
\* it is executing, with the locals of that call; queues and store are not
\* used.
Goroutines == {"g1", "g2"}

Outside == [pc |-> "idle"]

ConcInit ==
    /\ queues = [q \in QueueTypes |-> <<>>]
    /\ now = StartTime
    /\ nextID = 1
    /\ call = [g \in Goroutines |-> Outside]
    /\ store = EmptyTable

\* The requests of the concurrent callers: a single request with or without
\* a priority, and a batch of two different items with or without a
\* batch-level priority.
ConcRequests ==
    { req \in CreateNotificationRequest :
        /\ req.Type = "welcome" /\ req.Recipient # ""
        /\ req.Data = <<>> /\ req.TemplateID = ""
        /\ req.Priority \in {"", NotificationPriorityHigh} }

ConcBulkRequests ==
    { req \in BulkNotificationRequest :
        /\ Len(req.Notifications) = 2
        /\ req.Notifications[1].Priority = ""
        /\ req.Notifications[2].Priority # ""
        /\ req.TemplateID = "" }

\* The items a call has to send.
ItemsOf(c) ==
    IF c.op = "SendBulkNotifications" THEN Len(c.req.Notifications) ELSE 1

\* Goroutine g enters SendNotification or SendBulkNotifications.
Enter(g) ==
    /\ call[g].pc = "idle"
    /\ \E op \in {"SendNotification", "SendBulkNotifications"} :
         \E req \in IF op = "SendNotification" THEN ConcRequests ELSE ConcBulkRequests :
            LET c == [ pc            |-> "create",
                       op            |-> op,
                       req           |-> req,
                       inputs        |-> <<>>,
                       notification  |-> Nil,
                       notifications |-> <<>>,
                       effects       |-> <<>> ]
            IN  call' = [call EXCEPT ![g] = c]
    /\ UNCHANGED <<queues, now, nextID, store>>

\* The request of the item a call is at: in a bulk call, the item with the
\* batch-level overrides.
notificationReq(c) ==
    IF c.op = "SendBulkNotifications"
    THEN applyOverrides(c.req, c.req.Notifications[Len(c.notifications) + 1])
    ELSE c.req

\* Mutant: the identifier generator hands out the same identifier again.
Create_SameID(g) ==
    /\ call[g].pc = "create"
    /\ LET n1 == newNotification(notificationReq(call[g]), nextID, now, now)
       IN  call' = [call EXCEPT ![g].pc = "email",
                                ![g].notification = Some(n1),
                                ![g].inputs = @ \o << [id |-> nextID, t1 |-> now] >>]
    /\ UNCHANGED <<queues, now, nextID, store>>

\* SendNotification up to the transport call: the notification is built in
\* the locals of the call from a fresh identifier and the clock.
Create(g) ==
    /\ call[g].pc = "create"
    /\ LET n1 == newNotification(notificationReq(call[g]), nextID, now, now)
       IN  call' = [call EXCEPT ![g].pc = "email",
                                ![g].notification = Some(n1),
                                ![g].inputs = @ \o << [id |-> nextID, t1 |-> now] >>]
    /\ nextID' = nextID + 1
    /\ UNCHANGED <<queues, now, store>>

\* The transport call of SendNotification and what follows it: the status
\* and, after a successful send, sent_at from the clock.  In a bulk call the
\* notification is appended and the loop goes on.
Email(g) ==
    /\ call[g].pc = "email"
    /\ \E sesOK \in BOOLEAN :
         LET c    == call[g]
             n1   == c.notification[1]
             sent == sendEmailNotification(n1, sesOK)
             n2   == IF sent.err # Nil
                     THEN [n1 EXCEPT !.Status = NotificationStatusFailed]
                     ELSE [n1 EXCEPT !.Status = NotificationStatusSent,
                                     !.SentAt = Some(now)]
             k    == Len(c.inputs)
         IN  call' = [call EXCEPT
                 ![g].pc = IF k = ItemsOf(c) THEN "return" ELSE "create",
                 ![g].notification = Nil,
                 ![g].notifications = @ \o <<n2>>,
                 ![g].effects = @ \o sent.effects,
                 ![g].inputs = [@ EXCEPT ![k] =
                                  [id |-> @.id, t1 |-> @.t1, t3 |-> now, ok |-> sesOK]]]
    /\ UNCHANGED <<queues, now, nextID, store>>

\* The call returns to its caller, which goes on with the result.
Leave(g) ==
    /\ call[g].pc = "return"
    /\ call' = [call EXCEPT ![g].pc = "returned"]
    /\ UNCHANGED <<queues, now, nextID, store>>

ConcNext ==
    \/ Tick
    \/ \E g \in Goroutines : Enter(g)
    \/ \E g \in Goroutines : Create(g)
    \/ \E g \in Goroutines : Email(g)
    \/ \E g \in Goroutines : Leave(g)

ConcSpec == ConcInit /\ [][ConcNext]_vars

----------------------------------------------------------------------------
(* Properties of SendNotification and SendBulkNotifications (SendSpec) *)

SendReturned == call.op = "SendNotification"
BulkReturned == call.op = "SendBulkNotifications"

\* C1: whatever the request and whatever the outcome of the email transport,
\* SendNotification returns no error and a Notification with a non-zero id,
\* created_at <= updated_at and a status that is sent or failed.
C1_SendAlwaysReturnsNotification ==
    SendReturned =>
        /\ call.err = Nil
        /\ call.notification.ID # NilUUID
        /\ call.notification.CreatedAt <= call.notification.UpdatedAt
        /\ call.notification.Status \in {NotificationStatusSent, NotificationStatusFailed}

\* A send to the empty recipient that the transport rejected, the clock
\* having advanced between the two creation timestamps.
C1_Witness ==
    /\ SendReturned
    /\ ~call.sesOK
    /\ call.req.Recipient = ""
    /\ call.notification.Status = NotificationStatusFailed
    /\ call.notification.CreatedAt < call.notification.UpdatedAt

\* C2: when the email transport fails, the returned Notification has status
\* failed and no sent_at, and the call returns no error.
C2_TransportFailureGivesFailed ==
    (SendReturned /\ ~call.sesOK) =>
        /\ call.notification.Status = NotificationStatusFailed
        /\ call.notification.SentAt = Nil
        /\ call.err = Nil

C2_Witness ==
    /\ SendReturned
    /\ ~call.sesOK
    /\ call.req.Recipient = "ana@example.com"
    /\ call.notification.Status = NotificationStatusFailed
    /\ call.notification.SentAt = Nil

\* C3: when the email transport succeeds, the returned Notification has
\* status sent and a sent_at; and for every returned Notification sent_at is
\* set exactly when the status is sent.
C3_SentAtIffSent ==
    SendReturned =>
        /\ call.sesOK =>
              /\ call.notification.Status = NotificationStatusSent
              /\ call.notification.SentAt # Nil
        /\ call.notification.SentAt # Nil
              <=> call.notification.Status = NotificationStatusSent

\* A successful send whose sent_at is later than its updated_at.
C3_Witness ==
    /\ SendReturned
    /\ call.sesOK
    /\ call.notification.Status = NotificationStatusSent
    /\ call.notification.SentAt = Some(now)
    /\ call.notification.UpdatedAt < now

\* C4: a bulk send of N items, the transport failing on the items of any
\* subset F, returns no error and exactly N notifications, the i-th for the
\* i-th item, failed when i is in F and sent otherwise; every item is
\* attempted once, in order, also after a failed one.
C4_BulkPartialFailure ==
    BulkReturned =>
        LET N == Len(call.req.Notifications)
        IN  /\ call.err = Nil
            /\ Len(call.notifications) = N
            /\ Len(call.effects) = N
            /\ \A i \in 1..N :
                  /\ call.notifications[i].Recipient = call.req.Notifications[i].Recipient
                  /\ call.notifications[i].Status =
                        IF call.sesOK[i] THEN NotificationStatusSent
                                         ELSE NotificationStatusFailed
                  /\ call.effects[i].kind = "email"
                  /\ call.effects[i].target = call.req.Notifications[i].Recipient

\* A batch of three whose second item failed and whose third was sent.
C4_Witness ==
    /\ BulkReturned
    /\ call.sesOK = <<TRUE, FALSE, TRUE>>
    /\ Len(call.notifications) = 3
    /\ call.notifications[1].Status = NotificationStatusSent
    /\ call.notifications[2].Status = NotificationStatusFailed
    /\ call.notifications[3].Status = NotificationStatusSent

----------------------------------------------------------------------------
(* Properties of the routing of event and reservation notifications (Spec) *)

IsEnqueue(e) == e.kind = "enqueue"
IsEmail(e) == e.kind = "email"

\* The queues a completed call c sent a message to, in order, and the number
\* of emails it attempted.
EnqueueTargets(c) ==
    LET sends == SelectSeq(c.effects, IsEnqueue)
    IN  [i \in 1..Len(sends) |-> sends[i].target]
EmailCount(c) == Len(SelectSeq(c.effects, IsEmail))

HighOrUrgent(c) ==
    c.req.Priority \in {NotificationPriorityHigh, NotificationPriorityUrgent}

\* A step in which a call of one of the methods ops completes.
Finishes(ops) == call.op = "idle" /\ call'.op \in ops

\* In this step queue q gains exactly one message, the one built from the
\* request of the completing call, and the other queues stay as they are.
Enqueued(q) ==
    LET n == Len(queues[q])
    IN  /\ Len(queues'[q]) = n + 1
        /\ SubSeq(queues'[q], 1, n) = queues[q]
        /\ queues'[q][n + 1].Body.event_id = call'.req.EventID
        /\ queues'[q][n + 1].Body.recipient = call'.req.Recipient
        /\ \A other \in QueueTypes \ {q} : queues'[other] = queues[other]

\* One queue send, to queue q, which adds the message when it succeeds and
\* leaves every queue unchanged when it fails.
EnqueuesOnceOnto(q) ==
    /\ EnqueueTargets(call') = <<q>>
    /\ IF call'.sqsOK THEN Enqueued(q) ELSE queues' = queues

\* C5 as stated: NotifyEventCreated enqueues one message onto the events
\* queue and attempts the immediate email once at priority high or urgent,
\* never at another priority.
C5_AsStated ==
    [][ Finishes({"NotifyEventCreated"}) =>
          /\ EnqueuesOnceOnto("events")
          /\ EmailCount(call') = IF HighOrUrgent(call') THEN 1 ELSE 0 ]_vars

\* C5, amended: NotifyEventCreated performs one queue send, onto the events
\* queue; when that send succeeds it attempts the immediate email once at
\* priority high or urgent and never at another priority, and when the send
\* fails it attempts no email at any priority.
C5_EventCreatedRouting ==
    [][ Finishes({"NotifyEventCreated"}) =>
          /\ EnqueuesOnceOnto("events")
          /\ EmailCount(call') =
                IF call'.sqsOK /\ HighOrUrgent(call') THEN 1 ELSE 0 ]_vars

\* A high-priority event whose message was queued and whose email failed.
C5_Witness ==
    /\ call.op = "NotifyEventCreated"
    /\ call.req.Priority = NotificationPriorityHigh
    /\ call.sqsOK
    /\ EmailCount(call) = 1
    /\ ~call.effects[2].ok
    /\ Len(queues["events"]) >= 1

\* C6 as stated: NotifyEventCancelled performs one enqueue and one email
\* attempt at every priority and for every outcome of the two transports.
C6_AsStated ==
    call.op = "NotifyEventCancelled" =>
        /\ EnqueueTargets(call) = <<"events">>
        /\ EmailCount(call) = 1

\* C6, amended: NotifyEventCancelled performs one enqueue onto the events
\* queue at every priority, and one email attempt at every priority when the
\* enqueue succeeded; when the enqueue failed it attempts no email.
C6_EventCancelledRouting ==
    call.op = "NotifyEventCancelled" =>
        /\ EnqueueTargets(call) = <<"events">>
        /\ EmailCount(call) = IF call.sqsOK THEN 1 ELSE 0

\* A low-priority cancellation that was queued and emailed.
C6_Witness ==
    /\ call.op = "NotifyEventCancelled"
    /\ call.req.Priority = NotificationPriorityLow
    /\ call.sqsOK
    /\ EmailCount(call) = 1

WithImmediateEmail ==
    { "NotifyEventCreated", "NotifyEventCancelled",
      "NotifyReservationCreated", "NotifyReservationCancelled" }

\* C7: the four methods with an immediate email return an error exactly
\* when the enqueue failed, whatever the outcome of the email.
C7_ErrorIffEnqueueFailed ==
    call.op \in WithImmediateEmail => (call.err # Nil <=> ~call.sqsOK)

\* A reservation cancellation whose email failed and which returned nil.
C7_Witness ==
    /\ call.op = "NotifyReservationCancelled"
    /\ call.sqsOK
    /\ EmailCount(call) = 1
    /\ ~call.effects[2].ok
    /\ call.err = Nil

QueueingMethods ==
    WithImmediateEmail \cup {"SendEventReminder", "NotifyReservationConfirmed"}

\* C8: for each of the six queueing methods a failed queue send is returned
\* as an error, and the failed call leaves every queue as it was.
C8_EnqueueFailureSurfaced ==
    [][ (Finishes(QueueingMethods) /\ ~call'.sqsOK) =>
          /\ call'.err # Nil
          /\ queues' = queues ]_vars

\* A reminder whose queue send failed while another message was queued.
C8_Witness ==
    /\ call.op = "SendEventReminder"
    /\ ~call.sqsOK
    /\ call.err # Nil
    /\ TotalQueued = 1

\* C9 as stated: NotifyReservationCreated and NotifyReservationCancelled
\* enqueue one message onto the reservations queue and attempt one email at
\* every priority; NotifyReservationConfirmed enqueues one and emails none.
C9_AsStated ==
    [][ /\ Finishes({"NotifyReservationCreated", "NotifyReservationCancelled"}) =>
              /\ EnqueuesOnceOnto("reservations")
              /\ EmailCount(call') = 1
        /\ Finishes({"NotifyReservationConfirmed"}) =>
              /\ EnqueuesOnceOnto("reservations")
              /\ EmailCount(call') = 0 ]_vars

\* C9, amended: the three reservation methods perform one queue send, onto
\* the reservations queue; Created and Cancelled attempt one email at every
\* priority when that send succeeded and none when it failed; Confirmed
\* attempts no email.
C9_ReservationRouting ==
    [][ /\ Finishes({"NotifyReservationCreated", "NotifyReservationCancelled"}) =>
              /\ EnqueuesOnceOnto("reservations")
              /\ EmailCount(call') = IF call'.sqsOK THEN 1 ELSE 0
        /\ Finishes({"NotifyReservationConfirmed"}) =>
              /\ EnqueuesOnceOnto("reservations")
              /\ EmailCount(call') = 0 ]_vars

\* A confirmation of unspecified priority, queued behind another message of
\* the reservations queue, with no email.
C9_Witness ==
    /\ call.op = "NotifyReservationConfirmed"
    /\ call.req.Priority = ""
    /\ call.sqsOK
    /\ EmailCount(call) = 0
    /\ Len(queues["reservations"]) = 2

\* C10: SendEventReminder performs one queue send, onto the reminders queue,
\* which adds the reminder when it succeeds, and attempts no email, at every
\* priority.
C10_ReminderRouting ==
    [][ Finishes({"SendEventReminder"}) =>
          /\ EnqueuesOnceOnto("reminders")
          /\ EmailCount(call') = 0 ]_vars

\* An urgent reminder that was queued without an email.
C10_Witness ==
    /\ call.op = "SendEventReminder"
    /\ call.req.Priority = NotificationPriorityUrgent
    /\ call.sqsOK
    /\ EmailCount(call) = 0
    /\ Len(queues["reminders"]) >= 1

----------------------------------------------------------------------------
(* Properties of the batch-level overrides (SendSpec) *)

\* C19: when a bulk request carries a batch-level priority, every returned
\* notification has that priority, whatever the priority of its item.
C19_BatchPriorityOverrides ==
    (BulkReturned /\ call.req.Priority # "") =>
        \A i \in 1..Len(call.notifications) :
            call.notifications[i].Priority = call.req.Priority

\* An urgent batch whose second item asked for low priority.
C19_Witness ==
    /\ BulkReturned
    /\ call.req.Priority = NotificationPriorityUrgent
    /\ Len(call.req.Notifications) = 2
    /\ call.req.Notifications[2].Priority = NotificationPriorityLow
    /\ Len(call.notifications) = 2
    /\ call.notifications[2].Priority = NotificationPriorityUrgent

\* The priority SendNotification gives a request of priority p.
DefaultedPriority(p) == IF p = "" THEN NotificationPriorityNormal ELSE p

\* C20: when a bulk request carries a batch-level template, every returned
\* notification has that template; when the batch-level template is absent
\* the i-th notification keeps the template of the i-th item, and when the
\* batch-level priority is absent it keeps the priority of the i-th item,
\* normal standing for an unspecified one.
C20_BatchTemplateAndDefaults ==
    BulkReturned =>
        /\ Len(call.notifications) = Len(call.req.Notifications)
        /\ \A i \in 1..Len(call.notifications) :
              /\ call.notifications[i].TemplateID =
                    IF call.req.TemplateID # ""
                    THEN call.req.TemplateID
                    ELSE call.req.Notifications[i].TemplateID
              /\ call.req.Priority = "" =>
                    call.notifications[i].Priority =
                        DefaultedPriority(call.req.Notifications[i].Priority)

\* A batch with a template and no priority: the first item had a template
\* of its own and no priority, the second a priority and no template.
C20_Witness ==
    /\ BulkReturned
    /\ call.req.TemplateID = "tpl-bulk"
    /\ call.req.Priority = ""
    /\ Len(call.notifications) = 2
    /\ call.req.Notifications[1].TemplateID = "tpl-welcome"
    /\ call.notifications[1].TemplateID = "tpl-bulk"
    /\ call.notifications[1].Priority = NotificationPriorityNormal
    /\ call.notifications[2].Priority = NotificationPriorityLow

----------------------------------------------------------------------------
(* Properties of ProcessNotificationQueue (QueueSpec) *)

ProcessReturned == call.op = "ProcessNotificationQueue"

\* The positions in the effects of call c of the operations of one kind.
OpsOf(c, kind) == { k \in DOMAIN c.effects : c.effects[k].kind = kind }

\* The messages call c handled with success, those it asked to delete and
\* those whose delete succeeded.
Handled(c) == { c.effects[k].body : k \in { k \in OpsOf(c, "handle") : c.effects[k].ok } }
DeleteIssued(c) == { c.effects[k].body : k \in OpsOf(c, "delete") }
Deleted(c) == { c.effects[k].body : k \in { k \in OpsOf(c, "delete") : c.effects[k].ok } }

\* The messages call c received.
Received(c) == { c.messages[i].MessageId : i \in DOMAIN c.messages }

\* C11 as stated: within one call every received message is handled, and
\* the queue is left without the messages whose handler succeeded and with
\* all the others.
C11_AsStated ==
    [][ (Finishes({"ProcessNotificationQueue"}) /\ call'.err = Nil) =>
          /\ \A m \in Received(call') :
                \E k \in OpsOf(call', "handle") : call'.effects[k].body = m
          /\ queues'[call'.queueType] =
                Remaining(queues[call'.queueType], 1, Handled(call')) ]_vars

\* C11: within one call every received message is handled once, whatever
\* happened to the messages before it; a delete is asked, right after the
\* handling, for exactly the messages whose handler succeeded; and the queue
\* is left without the messages whose delete succeeded and with all the
\* others.
C11_DeleteFollowsHandling ==
    [][ (Finishes({"ProcessNotificationQueue"}) /\ call'.err = Nil) =>
          /\ \A m \in Received(call') :
                Cardinality({ k \in OpsOf(call', "handle") :
                                call'.effects[k].body = m }) = 1
          /\ \A k \in OpsOf(call', "handle") :
                call'.effects[k].ok <=>
                    /\ k + 1 \in OpsOf(call', "delete")
                    /\ call'.effects[k + 1].body = call'.effects[k].body
          /\ DeleteIssued(call') = Handled(call')
          /\ queues'[call'.queueType] =
                Remaining(queues[call'.queueType], 1, Deleted(call')) ]_vars

\* Two messages received from a queue of two: the delete of the first
\* failed, the second was handled and deleted all the same, and the first
\* alone is left in the queue.
C11_Witness ==
    /\ ProcessReturned
    /\ call.err = Nil
    /\ Len(call.messages) = 2
    /\ ~call.deleteOKs[1]
    /\ call.messages[1].MessageId \in Handled(call) \ Deleted(call)
    /\ call.messages[2].MessageId \in Deleted(call)
    /\ Len(queues[call.queueType]) = 1

\* C12: a call with a queue type other than events, reservations and
\* reminders returns an error and performs no receive, no handling and no
\* delete: no queue changes.
C12_InvalidTypeNoOperation ==
    [][ (Finishes({"ProcessNotificationQueue"}) /\ call'.queueType \notin QueueTypes) =>
          /\ call'.err # Nil
          /\ call'.effects = <<>>
          /\ queues' = queues ]_vars

\* A call with an unknown queue type made while messages are waiting.
C12_Witness ==
    /\ ProcessReturned
    /\ call.queueType = "invalid"
    /\ call.err # Nil
    /\ TotalQueued > 0

\* C13: a call with a valid queue type issues exactly one receive, as its
\* first operation, on the queue of that type and asking for at most 10
\* messages; it handles and deletes only messages of that receive, which
\* are at most 10.
C13_OneReceivePerCall ==
    (ProcessReturned /\ call.queueType \in QueueTypes) =>
        /\ OpsOf(call, "receive") = {1}
        /\ call.effects[1].target = call.queueType
        /\ call.effects[1].body = 10
        /\ Len(call.messages) <= 10
        /\ \A k \in OpsOf(call, "handle") \cup OpsOf(call, "delete") :
              /\ call.effects[k].body \in Received(call)
              /\ call.effects[k].target = call.queueType

\* The call has returned after one receive that handed out one of the two
\* messages of the queue: that one was deleted, the other one remains.
C13_Witness ==
    /\ ProcessReturned
    /\ call.err = Nil
    /\ Len(call.messages) = 1
    /\ Deleted(call) = Received(call)
    /\ Len(queues[call.queueType]) = 1

\* The receive of call c failed.
ReceiveFailed(c) == \E k \in OpsOf(c, "receive") : ~c.effects[k].ok

\* C14: the call returns an error exactly when the queue type is invalid or
\* the receive fails; a delete that fails does not make it return an error;
\* after a failed receive nothing is handled and nothing is deleted.
C14_ErrorOnlyFromTypeOrReceive ==
    ProcessReturned =>
        /\ call.err # Nil <=>
              (call.queueType \notin QueueTypes \/ ReceiveFailed(call))
        /\ ReceiveFailed(call) =>
              OpsOf(call, "handle") \cup OpsOf(call, "delete") = {}

\* A call whose only delete failed and that returned no error.
C14_Witness ==
    /\ ProcessReturned
    /\ call.err = Nil
    /\ Len(call.messages) = 1
    /\ DeleteIssued(call) # {}
    /\ Deleted(call) = {}

----------------------------------------------------------------------------
(* Properties of the notifications table (StoreSpec) *)

\* Item k of the table has attribute a.
Has(k, a) == a \in DOMAIN store[k]

\* The stored notifications: the items SaveNotification wrote.  Only
\* SaveNotification writes created_at.
Notifications == { k \in DOMAIN store : Has(k, "created_at") }

\* C15: every stored notification that has a sent_at has a status that is
\* sent, delivered, read or failed.
C15_AsStated ==
    \A k \in Notifications :
        Has(k, "sent_at") =>
            /\ Has(k, "status")
            /\ store[k]["status"] \in { NotificationStatusSent,
                                        NotificationStatusDelivered,
                                        NotificationStatusRead,
                                        NotificationStatusFailed }

\* C16: every stored notification that has a read_at has the status read.
C16_AsStated ==
    \A k \in Notifications :
        Has(k, "read_at") =>
            /\ Has(k, "status")
            /\ store[k]["status"] = NotificationStatusRead

\* C17: once a stored notification has a sent_at or a read_at, no step that
\* keeps the notification stored changes the value of that attribute or
\* removes it.
C17_AsStated ==
    [][ \A k \in Notifications \cap DOMAIN store' :
          \A a \in {"sent_at", "read_at"} :
             a \in DOMAIN store[k] =>
                /\ a \in DOMAIN store'[k]
                /\ store'[k][a] = store[k][a] ]_vars

\* C18: every item of the table has an identifier that SendNotification
\* generated, and an update request for an identifier under which the table
\* holds no item leaves the table without an item of that identifier.
C18_AsStated ==
    [][ /\ \A k \in DOMAIN store' :
              \E id \in 1..(nextID' - 1) : k = String(id)
        /\ Finishes({"UpdateNotificationRequest"}) =>
              (call'.id \notin DOMAIN store => call'.id \notin DOMAIN store') ]_vars

----------------------------------------------------------------------------
(* Properties of the fields of a sent notification (SendSpec) *)

\* C21: the notification SendNotification returns has priority normal when
\* the request has no priority and the priority of the request otherwise;
\* its type, recipient, subject, content and template are the request's.
C21_FieldsCopiedPriorityDefaulted ==
    SendReturned =>
        /\ call.notification.Priority =
              (IF call.req.Priority = "" THEN "normal" ELSE call.req.Priority)
        /\ call.notification.Type = call.req.Type
        /\ call.notification.Recipient = call.req.Recipient
        /\ call.notification.Subject = call.req.Subject
        /\ call.notification.Content = call.req.Content
        /\ call.notification.TemplateID = call.req.TemplateID

\* A request without priority and with a template, returned with priority
\* normal and the same template.
C21_Witness ==
    /\ SendReturned
    /\ call.req.Priority = ""
    /\ call.req.TemplateID = "tpl-welcome"
    /\ call.notification.Priority = NotificationPriorityNormal
    /\ call.notification.TemplateID = "tpl-welcome"

----------------------------------------------------------------------------
(* Properties of updates of stored notifications (StoreSpec) *)

\* An update request that the handler has answered with 200.
Updated == Finishes({"UpdateNotificationRequest"}) /\ call'.code = 200

\* The attributes an update request names.
NamedIn(req) ==
    (IF req.Status # Nil THEN {"status"} ELSE {})
      \cup (IF req.SentAt # Nil THEN {"sent_at"} ELSE {})
      \cup (IF req.ReadAt # Nil THEN {"read_at"} ELSE {})

\* The step leaves every attribute of item k outside the set named as it was.
OthersUnchanged(k, named) ==
    /\ DOMAIN store'[k] \ named = DOMAIN store[k] \ named
    /\ \A a \in DOMAIN store[k] \ named : store'[k][a] = store[k][a]

\* The instant at the start of the second of instant t.
WholeSecond(t) == t - (t % 2)

\* C22 as stated: an update of a stored notification leaves the status
\* named and, for each time named, a text that denotes the instant given;
\* updated_at is the text of the time of the update; every other attribute
\* is as before.
C22_AsStated ==
    [][ (Updated /\ call'.id \in Notifications) =>
          LET k == call'.id
              req == call'.req
          IN  /\ req.Status # Nil => store'[k]["status"] = req.Status[1]
              /\ req.SentAt # Nil =>
                    Parse(RFC3339, store'[k]["sent_at"]) = req.SentAt[1]
              /\ req.ReadAt # Nil =>
                    Parse(RFC3339, store'[k]["read_at"]) = req.ReadAt[1]
              /\ Parse(RFC3339, store'[k]["updated_at"]) = WholeSecond(now)
              /\ OthersUnchanged(k, NamedIn(req) \cup {"updated_at"}) ]_vars

\* C22: an update of a stored notification leaves the status named and, for
\* each time named, the text of the whole second of the instant given;
\* updated_at is the text of the whole second of the time of the update;
\* every other attribute is as before.
C22_UpdateSetsNamedFields ==
    [][ (Updated /\ call'.id \in Notifications) =>
          LET k == call'.id
              req == call'.req
          IN  /\ req.Status # Nil => store'[k]["status"] = req.Status[1]
              /\ req.SentAt # Nil =>
                    Parse(RFC3339, store'[k]["sent_at"]) = WholeSecond(req.SentAt[1])
              /\ req.ReadAt # Nil =>
                    Parse(RFC3339, store'[k]["read_at"]) = WholeSecond(req.ReadAt[1])
              /\ Parse(RFC3339, store'[k]["updated_at"]) = WholeSecond(now)
              /\ OthersUnchanged(k, NamedIn(req) \cup {"updated_at"}) ]_vars

\* An update that named only sent_at, with an instant in the middle of a
\* second, on a stored notification: the text stored is that of the second.
C22_Witness ==
    /\ call.op = "UpdateNotificationRequest"
    /\ call.code = 200
    /\ call.id \in Notifications
    /\ call.req.Status = Nil
    /\ call.req.ReadAt = Nil
    /\ call.req.SentAt # Nil
    /\ call.req.SentAt[1] % 2 = 1
    /\ Parse(RFC3339, store[call.id]["sent_at"]) = call.req.SentAt[1] - 1
    /\ Has(call.id, "status")

\* A send request whose notification the handler has saved.
Saved ==
    /\ Finishes({"SendNotificationRequest"})
    /\ call'.data # Nil
    /\ call'.saveErr = Nil

\* Items x and y have the same attributes and agree on all of them but
\* updated_at.
SameButUpdatedAt(x, y) ==
    /\ DOMAIN x = DOMAIN y
    /\ \A a \in DOMAIN x \ {"updated_at"} : x[a] = y[a]

\* C23: saving once more the notification that has just been saved leaves
\* the table as it is; making once more, now or later, the update that has
\* just been made leaves the item as it is but for updated_at; and no step
\* takes the updated_at of an item that stays in the table back in time.
C23_SaveAndUpdateIdempotent ==
    [][ /\ Saved =>
              SaveNotification(store', call'.data[1], TRUE).table = store'
        /\ Updated =>
              \A t \in now'..MaxTime :
                 LET again == UpdateNotificationHandler(store', call'.id,
                                                        call'.req, t, TRUE)
                 IN  /\ again.code = 200
                     /\ SameButUpdatedAt(again.table[call'.id], store'[call'.id])
                     /\ Parse(RFC3339, again.table[call'.id]["updated_at"])
                           >= Parse(RFC3339, store'[call'.id]["updated_at"])
        /\ \A k \in DOMAIN store \cap DOMAIN store' :
              ("updated_at" \in DOMAIN store[k] /\ "updated_at" \in DOMAIN store'[k]) =>
                 Parse(RFC3339, store'[k]["updated_at"])
                   >= Parse(RFC3339, store[k]["updated_at"]) ]_vars

\* An update of the status of a stored notification made in a later second
\* than the one it was created in: updated_at has moved on.
C23_Witness ==
    /\ call.op = "UpdateNotificationRequest"
    /\ call.code = 200
    /\ call.id \in Notifications
    /\ call.req.Status = Some(NotificationStatusRead)
    /\ store[call.id]["status"] = NotificationStatusRead
    /\ Parse(RFC3339, store[call.id]["updated_at"])
          > Parse(RFC3339, store[call.id]["created_at"])

\* C24: as long as a stored notification stays in the table, its id, type,
\* priority and created_at are those it was saved with, whatever update
\* requests are made.
C24_CreationFieldsImmutable ==
    [][ \A k \in Notifications \cap DOMAIN store' :
          \A a \in {"id", "type", "priority", "created_at"} :
             /\ a \in DOMAIN store'[k]
             /\ store'[k][a] = store[k][a] ]_vars

\* An update naming status, sent_at and read_at of a stored notification,
\* made in a later second than its creation: the notification still has
\* the type, the priority and the created_at of its creation.
C24_Witness ==
    /\ call.op = "UpdateNotificationRequest"
    /\ call.code = 200
    /\ call.id \in Notifications
    /\ NamedIn(call.req) = {"status", "sent_at", "read_at"}
    /\ store[call.id]["id"] = call.id
    /\ store[call.id]["type"] = "welcome"
    /\ store[call.id]["priority"] = NotificationPriorityNormal
    /\ Parse(RFC3339, store[call.id]["created_at"])
          < Parse(RFC3339, store[call.id]["sent_at"])

----------------------------------------------------------------------------
(* Properties of the refresh of updated_at (SendSpec) *)

\* C25: the notification SendNotification returns with a sent_at has an
\* updated_at that is no earlier than that sent_at, the time at which its
\* status was changed.
C25_AsStated ==
    (SendReturned /\ call.notification.SentAt # Nil) =>
        call.notification.UpdatedAt >= call.notification.SentAt[1]

----------------------------------------------------------------------------
(* Properties of cancellation (QueueSpec) *)

\* C26: when the context of a ProcessNotificationQueue call is cancelled
\* once ctxDone messages of the batch have been dealt with, no message after
\* those is handled and no delete is asked for one.
C26_AsStated ==
    (ProcessReturned /\ call.err = Nil) =>
        /\ Cardinality(OpsOf(call, "handle")) <= call.ctxDone
        /\ Cardinality(OpsOf(call, "delete")) <= call.ctxDone

----------------------------------------------------------------------------
(* Properties of concurrent calls (ConcSpec) *)

\* What a call would return when it runs alone with the clock readings and
\* transport outcomes it has had.
Alone(c) ==
    IF c.op = "SendBulkNotifications"
    THEN LET res == SendBulkNotifications(c.req, 1,
                        [i \in 1..Len(c.inputs) |->
                            <<c.inputs[i].t1, c.inputs[i].t1, c.inputs[i].t3>>],
                        [i \in 1..Len(c.inputs) |-> c.inputs[i].ok])
         IN  [ notifications |-> res.notifications, err |-> res.err,
               effects |-> res.effects ]
    ELSE LET res == SendNotification(c.req, 1, c.inputs[1].t1, c.inputs[1].t1,
                                     c.inputs[1].t3, c.inputs[1].ok)
         IN  [ notifications |-> <<res.notification>>, err |-> res.err,
               effects |-> res.effects ]

NoID(n) == [n EXCEPT !.ID = NilUUID]

\* The identifiers of the notifications a call has built.
IDsOf(c) ==
    IF c.pc = "idle" THEN {}
    ELSE { c.notifications[i].ID : i \in 1..Len(c.notifications) }
           \cup (IF c.notification = Nil THEN {} ELSE { c.notification[1].ID })

Built(c) ==
    IF c.pc = "idle" THEN 0
    ELSE Len(c.notifications) + (IF c.notification = Nil THEN 0 ELSE 1)

----------------------------------------------------------------------------
(* Properties of the service and the record store (QueueSpec) *)

----------------------------------------------------------------------------
(* Properties of rejected requests (RequestSpec) *)

\* A request of one of the routes is answered in this step.
Answered ==
    /\ call.op = "idle"
    /\ call'.op \in {"SendNotificationRequest", "NotifyEventCreatedRequest",
                      "NotifyReservationCreatedRequest",
                      "ProcessNotificationQueueRequest"}

\* The request answered in this step lacks a required field or names no
\* valid queue type.
Invalid ==
    CASE call'.op = "SendNotificationRequest" ->
            call'.req.Recipient = "" \/ call'.req.Subject = "" \/ call'.req.Content = ""
      [] call'.op = "NotifyEventCreatedRequest" ->
            call'.req.EventID = "" \/ call'.req.EventName = "" \/ call'.req.Recipient = ""
      [] call'.op = "NotifyReservationCreatedRequest" ->
            \/ call'.req.ReservationID = "" \/ call'.req.EventID = ""
            \/ call'.req.EventName = "" \/ call'.req.Recipient = ""
      [] call'.op = "ProcessNotificationQueueRequest" ->
            call'.queueType \notin QueueTypes

\* C29: a request that lacks a required field, or names an unknown queue
\* type, is rejected with no transport operation (no email, enqueue, receive
\* or delete): the queues and the record store stay as they were and no
\* identifier is drawn.
C29_RejectedWithoutSideEffect ==
    [][ (Answered /\ Invalid) =>
            /\ call'.code = StatusBadRequest
            /\ call'.effects = <<>>
            /\ queues' = queues
            /\ store' = store
            /\ nextID' = nextID ]_vars

\* A queue request with an unknown type has been rejected while messages
\* wait in the queues.
C29_Witness ==
    /\ call.op = "ProcessNotificationQueueRequest"
    /\ call.queueType = "invalid"
    /\ call.code = StatusBadRequest
    /\ TotalQueued > 0

----------------------------------------------------------------------------
(* Properties of the handling of a message (QueueSpec) *)

\* C30: in a completed ProcessNotificationQueue call, the delete of a
\* message comes after a record-store update made for that message.
C30_AsStated ==
    ProcessReturned =>
        \A k \in OpsOf(call, "delete") :
            \E j \in OpsOf(call, "update") :
                j < k /\ call.effects[j].body = call.effects[k].body

----------------------------------------------------------------------------
(* Properties of the order of enqueue and email (Spec) *)

ImmediateOps ==
    {"NotifyEventCreated", "NotifyEventCancelled",
     "NotifyReservationCreated", "NotifyReservationCancelled"}

\* C33: in a completed NotifyEventCreated, NotifyEventCancelled,
\* NotifyReservationCreated or NotifyReservationCancelled call, the first
\* operation is the enqueue, a failed enqueue is the only operation of the
\* call, and every email attempt comes after a successful enqueue.
C33_EnqueueBeforeEmail ==
    call.op \in ImmediateOps =>
        /\ call.effects # <<>>
        /\ call.effects[1].kind = "enqueue"
        /\ (~call.effects[1].ok => Len(call.effects) = 1)
        /\ \A k \in DOMAIN call.effects :
              call.effects[k].kind = "email" =>
                \E j \in 1..(k - 1) :
                    call.effects[j].kind = "enqueue" /\ call.effects[j].ok

\* A reservation cancellation whose enqueue succeeded and whose email was
\* attempted after it and failed.
C33_Witness ==
    /\ call.op = "NotifyReservationCancelled"
    /\ Len(call.effects) = 2
    /\ call.effects[1].kind = "enqueue" /\ call.effects[1].ok
    /\ call.effects[2].kind = "email" /\ ~call.effects[2].ok

----------------------------------------------------------------------------
(* Properties of the isolation of the queues (QueueSpec) *)

\* The queue an operation of the service works on.
QueueOf(c) ==
    CASE c.op \in {"NotifyEventCreated", "NotifyEventCancelled"} -> "events"
      [] c.op \in {"NotifyReservationCreated", "NotifyReservationConfirmed",
                   "NotifyReservationCancelled"} -> "reservations"
      [] c.op = "SendEventReminder" -> "reminders"
      [] c.op = "ProcessNotificationQueue" -> c.queueType

\* C34: a call of an event, reservation, reminder or queue-processing
\* operation sends to, receives from and deletes from its own queue only,
\* and leaves the two other queues as they were.
C34_QueuesIsolated ==
    [][ (call.op = "idle" /\ call'.op # "idle") =>
            /\ \A k \in DOMAIN call'.effects :
                  call'.effects[k].kind \in {"enqueue", "receive", "delete"} =>
                      call'.effects[k].target = QueueOf(call')
            /\ \A q \in QueueTypes :
                  q # QueueOf(call') => queues'[q] = queues[q] ]_vars

\* A ProcessNotificationQueue call has deleted a message of the
\* reservations queue while a message waits in the events queue.
C34_Witness ==
    /\ ProcessReturned
    /\ call.queueType = "reservations"
    /\ Deleted(call) # {}
    /\ Len(queues["events"]) > 0

----------------------------------------------------------------------------
(* Properties of a failed delete (QueueSpec) *)

\* The place in its queue, after the completed call c, of the message that
\* was at place p when c received it and that c has not deleted.
PlaceAfter(c, p) == p - Cardinality({ d \in Deleted(c) : d < p })

\* A later call on queue q that receives the messages later handles the
\* message at place p, whatever the outcomes of its deletes.
HandledAgain(q, later, p) ==
    \A oks \in [1..Len(later) -> BOOLEAN] :
        LET res == ProcessNotificationQueue(q, later, TRUE, oks)
        IN  /\ res.err = Nil
            /\ \E k \in DOMAIN res.effects :
                  res.effects[k].kind = "handle" /\ res.effects[k].body = p

\* C35: a completed ProcessNotificationQueue call whose receive succeeded
\* returns no error whatever the outcomes of its deletes; every received
\* message is handled and a delete is asked for it, also after a delete that
\* failed; a message whose delete failed is still in the queue, and any later
\* call that receives it handles it again.
C35_FailedDeleteHandledAgain ==
    (ProcessReturned /\ call.queueType \in QueueTypes /\ call.receiveOK) =>
        /\ call.err = Nil
        /\ \A i \in DOMAIN call.messages :
              \E k \in OpsOf(call, "handle") :
                  /\ call.effects[k].body = call.messages[i].MessageId
                  /\ k + 1 \in OpsOf(call, "delete")
                  /\ call.effects[k + 1].body = call.messages[i].ReceiptHandle
                  /\ call.effects[k + 1].ok = call.deleteOKs[i]
        /\ \A i \in DOMAIN call.messages :
              ~call.deleteOKs[i] =>
                LET q == call.queueType
                    p == PlaceAfter(call, call.messages[i].ReceiptHandle)
                IN  /\ p \in 1..Len(queues[q])
                    /\ queues[q][p].Body = call.messages[i].Body
                    /\ \A later \in Receivable(queues[q], ReceiveMax) :
                          (\E j \in DOMAIN later : later[j].MessageId = p) =>
                              HandledAgain(q, later, p)

\* The delete of the one message of a batch failed: the call returned no
\* error and the message is still in its queue.
C35_Witness ==
    /\ ProcessReturned
    /\ call.err = Nil
    /\ Len(call.messages) = 1
    /\ ~call.deleteOKs[1]
    /\ call.messages[1].MessageId \in Handled(call)
    /\ Len(queues[call.queueType]) >= 1

----------------------------------------------------------------------------
(* Properties of the message handler (QueueSpec) *)

\* C36: the handler returns no error for any queue type and any received
\* message; so in a ProcessNotificationQueue call that returns no error a
\* delete is asked for every received message, and the messages the call
\* received and left in the queue are those whose delete failed.
C36_HandlerNeverFails ==
    [][ (Finishes({"ProcessNotificationQueue"}) /\ call'.err = Nil) =>
          LET c == call'
              q == c.queueType
          IN  /\ \A i \in DOMAIN c.messages, t \in QueueTypeArgs :
                    processMessage(c.messages[i], t).err = Nil
              /\ \A k \in OpsOf(c, "handle") : c.effects[k].ok
              /\ DeleteIssued(c) = Received(c)
              /\ Cardinality(OpsOf(c, "delete")) = Len(c.messages)
              /\ Len(queues'[q]) =
                    Len(queues[q])
                      - Cardinality({ i \in DOMAIN c.messages : c.deleteOKs[i] })
              /\ \A i \in DOMAIN c.messages :
                    ~c.deleteOKs[i] =>
                        queues'[q][PlaceAfter(c, c.messages[i].ReceiptHandle)]
                            = queues[q][c.messages[i].ReceiptHandle] ]_vars

\* Two reminders were received: a delete was asked for both, the first
\* succeeded and the second failed, and one reminder is left.
C36_Witness ==
    /\ ProcessReturned
    /\ call.queueType = "reminders"
    /\ Len(call.messages) = 2
    /\ Cardinality(OpsOf(call, "delete")) = 2
    /\ call.deleteOKs[1] /\ ~call.deleteOKs[2]
    /\ Len(queues["reminders"]) = 1

----------------------------------------------------------------------------
(* Properties of delivery (DeliverySpec) *)

\* A completed call on queue q has handled a message of body b and then
\* deleted it.
Consumed(q, b) ==
    /\ ProcessReturned
    /\ call.queueType = q
    /\ \E i \in DOMAIN call.messages :
          /\ call.messages[i].Body = b
          /\ \E k \in OpsOf(call, "handle") :
                /\ call.effects[k].body = call.messages[i].MessageId
                /\ call.effects[k].ok
                /\ \E d \in OpsOf(call, "delete") :
                      /\ d > k
                      /\ call.effects[d].body = call.messages[i].ReceiptHandle
                      /\ call.effects[d].ok

\* A queue loses messages only in a step that is a ProcessNotificationQueue
\* call on it: the messages lost are those of the successful deletes of the
\* call, each delete coming after the successful handling of its message.
RemovedOnlyByDelete ==
    [][ \A q \in QueueTypes :
          \/ queues'[q] = queues[q]
          \/ /\ Len(queues'[q]) = Len(queues[q]) + 1
             /\ SubSeq(queues'[q], 1, Len(queues[q])) = queues[q]
          \/ /\ Finishes({"ProcessNotificationQueue"})
             /\ call'.queueType = q
             /\ queues'[q] = Remaining(queues[q], 1, Deleted(call'))
             /\ \A d \in OpsOf(call', "delete") :
                   \E k \in OpsOf(call', "handle") :
                       /\ k < d
                       /\ call'.effects[k].ok
                       /\ call'.effects[k].body = call'.effects[d].body ]_vars

\* C31: a message leaves its queue only by a delete that follows its
\* successful handling in the same call; and when the queue processor is
\* called on a queue again and again with a receive and deletes that succeed
\* again and again, the queue is empty again and again: every message that
\* waits in it has in the end left it, that is, has been handled and deleted.
C31_AtLeastOnce ==
    /\ RemovedOnlyByDelete
    /\ \A q \in QueueTypes : []<>(queues[q] = <<>>)

\* A reservation message has been handled and then deleted, and no message
\* waits in any queue.
C31_Witness ==
    /\ ProcessReturned
    /\ call.queueType = "reservations"
    /\ \E b \in DeliveryBodies["reservations"] : Consumed("reservations", b)
    /\ TotalQueued = 0

----------------------------------------------------------------------------
(* Properties of save and get (StoreSpec) *)

\* C37: when the save of a sent notification fails, the send request is
\* still answered 201 with the notification, and the table is left as it
\* was; a get request is answered 404 exactly when the table, which answers,
\* holds no item of the identifier, as for the identifier of a notification
\* whose save failed.
C37_SaveFailureStillCreated ==
    [][ /\ (Finishes({"SendNotificationRequest"}) /\ call'.saveErr # Nil) =>
              /\ call'.code = StatusCreated
              /\ call'.data # Nil
              /\ call'.data[1].ID = nextID
              /\ store' = store
              /\ String(call'.data[1].ID) \notin DOMAIN store'
              /\ GetNotificationHandler(store', String(call'.data[1].ID), TRUE).code
                    = StatusNotFound
        /\ Finishes({"GetNotificationRequest"}) =>
              /\ store' = store
              /\ (call'.code = StatusNotFound) <=>
                    (call'.ddbOK /\ call'.id \notin DOMAIN store) ]_vars

\* A caller asks for the notification of an identifier it was given and is
\* answered 404: the table holds no item.
C37_Witness ==
    /\ call.op = "GetNotificationRequest"
    /\ call.id \in NotificationIDArgs
    /\ call.code = StatusNotFound
    /\ DOMAIN store = {}

\* C38: after a successful save of a notification, the get of its identifier
\* returns a notification with the same id, type, status, priority,
\* recipient, subject, content, template_id and data, and with sent_at and
\* read_at set when they were; after a successful delete the get of the
\* identifier reports not found.
C38_AsStated ==
    /\ (/\ call.op = "SendNotificationRequest"
        /\ call.code = StatusCreated
        /\ call.saveErr = Nil) =>
            LET n   == call.data[1]
                got == GetNotificationByID(store, String(n.ID), TRUE)
            IN  /\ got.err = Nil
                /\ \A f \in {"ID", "Type", "Status", "Priority", "Recipient",
                               "Subject", "Content", "TemplateID", "Data"} :
                      got.notification[1][f] = n[f]
                /\ (got.notification[1].SentAt # Nil) <=> (n.SentAt # Nil)
                /\ (got.notification[1].ReadAt # Nil) <=> (n.ReadAt # Nil)
    /\ (call.op = "DeleteNotificationRequest" /\ call.code = StatusOK) =>
            GetNotificationByID(store, call.id, TRUE).err
                = Some("notification not found")

=============================================================================
